---- MODULE Spec2Model ----
(***************************************************************************)
(* Model of the zitbo realtime server (src/index.js, lines 1-735): the     *)
(* socket.io event handlers working on the "tasks" and "roomsStates"       *)
(* collections.  Every storage call of a handler is an await, hence a      *)
(* point where handlers of other events run; a handler is modelled as a    *)
(* call record that moves from one storage call to the next.               *)
(***************************************************************************)
EXTENDS Integers, Sequences, FiniteSets, TLC

(* ------------------------------ bounds -------------------------------- *)
\* number of events the sockets send in one behaviour
MaxCalls == 2
\* largest numberOfDaysCompletedTimes a client sends
MaxDays == 5

(* ------------------------------ values -------------------------------- *)
Users == {"u1", "u2"}
\* sockets; a socket carries the username of its verified token
Conn == {"A", "B", "C"}
username(c) == IF c = "C" THEN "u2" ELSE "u1"

\* task ids a client sends: task 1 is stored, id 2 names no stored task
TaskIds == {1, 2}
\* workedTimeSpan ids a client sends: the ObjectIds generated so far and 0,
\* which names no workedTimeSpan
NoSpan == 0
\* instants, of the server clock and in the payload of an event: two, to tell
\* an endTime that is kept from one that is set again
Times == {1, 2}

\* JavaScript values an activeTaskId can take besides a task id
Undefined == -1
EmptyString == 0
\* an endTime that is not there (undefined in the payload or in the document)
NoTime == 0
ActiveTaskIdArgs == {Undefined, EmptyString} \cup TaskIds
EndTimeArgs == {NoTime} \cup Times
IndexArgs == {-1, 0}

VARIABLES
  sockets,      \* socket -> "new" | "live" | "closed" | "rejected"
  tasks,        \* the tasks collection: task id -> document
  roomsStates,  \* the roomsStates collection: document -> activeTaskId
  calls,        \* listeners that have not returned yet
  deletes,      \* room -> number of deleteOne calls of deleteARoomState in flight
  nextId,       \* next ObjectId for a workedTimeSpan
  ncalls,       \* number of events received so far
  registered,   \* history: the endTimes workedTimeSpan:end has set, in order
  written,      \* history: room -> the activeTaskId roomState:update wrote last
  applied,      \* history: the listeners of workedTimeSpan events that have
                \* returned, in the order of their last storage call, where
                \* a specification records them
  wire          \* what the last step sent to clients, in sending order

vars == <<sockets, tasks, roomsStates, calls, deletes, nextId, ncalls,
          registered, written, applied, wire>>
\* the variables that are no part of the program's state
history == <<registered, written, applied>>
\* no listener is recorded
NotRecording == [recording |-> FALSE, ops |-> <<>>]
\* the history of returned listeners with one more, where it is recorded
Recorded(call) ==
  IF applied.recording THEN [applied EXCEPT !.ops = Append(@, call)] ELSE applied

(* ------------------------------ helpers ------------------------------- *)
\* a room that holds every connected socket
roomOfAll(u) == {c \in Conn : sockets[c] = "live"}

\* io.of("/").adapter.rooms.get(username): the sockets that joined the room
\* and have not left it
room(u) == {c \in Conn : sockets[c] = "live" /\ username(c) = u}

\* roomState?.activeTaskId of roomsStates.findOne({room: username})
ReadActiveTaskId(u) ==
  IF u \in DOMAIN roomsStates THEN roomsStates[u] ELSE Undefined

\* x || ""
OrEmptyString(x) == IF x = Undefined \/ x = EmptyString THEN EmptyString ELSE x

\* a value used as a condition
Truthy(x) == x # Undefined /\ x # EmptyString

\* The listener of an event: seq is the number of the event in the order of
\* arrival, id and wid are the task and workedTimeSpan ids of its payload,
\* activeTaskId is the argument of roomState:update and the local variable of
\* workedTimeSpan:end, startTime the startTime of the new workedTimeSpan.
\* An argument that the listener only reads after an await (endTime,
\* wasDisconnected, indexInTasksOfDays) is drawn in the step that reads it and
\* kept in the record from then on, like the clock value now that new Date()
\* gave to workedTimeSpan:end.  name is the name of tasks:create and
\* taskName:update, wids the workedTimeSpansIds of workedTimeSpan:delete,
\* isTaskActive the argument of tasks:delete.  newTask is the task as the
\* client sent it with tasks:create, and doer the doer of the task that the
\* listener gives to insertOne.
Call(op, c, id, wid, activeTaskId, startTime, pc) ==
  [seq |-> ncalls + 1, op |-> op, conn |-> c, id |-> id, wid |-> wid,
   activeTaskId |-> activeTaskId, startTime |-> startTime, endTime |-> NoTime,
   now |-> NoTime, wasDisconnected |-> FALSE, indexInTasksOfDays |-> 0,
   name |-> "", wids |-> {}, isTaskActive |-> FALSE,
   newTask |-> [name |-> "", doer |-> "", date |-> NoTime], doer |-> "", pc |-> pc]

\* messages, each with the listener it comes from: the argument of an
\* acknowledgement callback, and tasks:change emitted to a room
\* (TasksChangeToSocket: emitted to the socket of the listener instead)
Ack(call, message) ==
  [ev |-> "ack", to |-> call.conn, from |-> call, message |-> message,
   indexInTasksOfDays |-> 0, activeTaskId |-> Undefined]
TasksChangeToSocket(call, index, activeTaskId) ==
  [ev |-> "tasks:change", to |-> call.conn, from |-> call,
   message |-> "", indexInTasksOfDays |-> index, activeTaskId |-> activeTaskId]
TasksChange(call, index, activeTaskId) ==
  [ev |-> "tasks:change", to |-> username(call.conn), from |-> call,
   message |-> "", indexInTasksOfDays |-> index, activeTaskId |-> activeTaskId]

\* the sockets a message is delivered to: the socket of the callback when it
\* is still connected, and no socket when it has closed; for
\* io.to(username).emit the sockets that are in the room when it is emitted
Recipients(m) ==
  IF m.to \in Conn
  THEN (IF sockets[m.to] = "live" THEN {m.to} ELSE {})
  ELSE room(m.to)

\* indexes of the workedTimeSpans of a document whose id is wid
Matching(doc, wid) ==
  {i \in 1..Len(doc.workedTimeSpans) : doc.workedTimeSpans[i].id = wid}
Min(S) == CHOOSE x \in S : \A y \in S : x <= y

\* The roomsStates collection has no unique index on room, so that it can
\* hold several documents of one room.  The documents of a room are named in
\* the order in which the store finds them, which is the order of their
\* insertion: the first one by the room itself, the others by these names.
\* findOne, updateOne and deleteOne with the filter {room: username} act on
\* the first one.
DocumentNames(u) ==
  IF u = "u1" THEN <<"u1", "u1 (2)", "u1 (3)", "u1 (4)">>
              ELSE <<"u2", "u2 (2)", "u2 (3)", "u2 (4)">>
\* the documents of the collection with room u
Documents(u) ==
  {DocumentNames(u)[k] : k \in {j \in DOMAIN DocumentNames(u) :
                                  DocumentNames(u)[j] \in DOMAIN roomsStates}}
\* the name of a document of room u that is inserted now
NewDocument(u) ==
  DocumentNames(u)[Min({k \in DOMAIN DocumentNames(u) :
                          DocumentNames(u)[k] \notin DOMAIN roomsStates})]
\* the collection without the first document of room u: the documents of
\* the room that follow it are found one place earlier
WithoutFirst(u) ==
  LET names == DocumentNames(u)
      n == Cardinality(Documents(u))
  IN [r \in DOMAIN roomsStates \ (IF n = 0 THEN {} ELSE {names[n]}) |->
        IF \E k \in 1..(n - 1) : names[k] = r
        THEN roomsStates[names[(CHOOSE k \in 1..(n - 1) : names[k] = r) + 1]]
        ELSE roomsStates[r]]

(* ------------------------------- Init --------------------------------- *)
\* the store holds one task of u1 with one workedTimeSpan in progress
Init ==
  /\ sockets = [c \in Conn |-> "new"]
  /\ tasks = (1 :> [doer |-> "u1", name |-> "n", date |-> 1,
                    workedTimeSpans |-> <<[id |-> 1, startTime |-> 1, endTime |-> NoTime]>>])
  /\ roomsStates = [r \in {} |-> EmptyString]
  /\ calls = {}
  /\ deletes = [u \in Users |-> 0]
  /\ nextId = 2
  /\ ncalls = 0
  /\ registered = <<>>
  /\ applied = NotRecording
  /\ written = [r \in {} |-> EmptyString]
  /\ wire = <<>>

(* --------------------------- connections ------------------------------ *)
\* io.use and io.on("connection"): the token is verified and the socket
\* joins the room named by its username
Connect(c) ==
  /\ sockets[c] = "new"
  /\ sockets' = [sockets EXCEPT ![c] = "live"]
  /\ wire' = <<>>
  /\ UNCHANGED <<tasks, roomsStates, calls, deletes, nextId, ncalls, history>>

\* numberOfSocketsInARoom of deleteARoomState, read when socket c has left
numberOfSocketsInARoom(c) == Cardinality(room(username(c)) \ {c})

\* deleteARoomState that does not look at the size of the room
deleteARoomStateAlways(c) == TRUE

\* deleteARoomState up to its await: whether it sends a deleteOne
deleteARoomState(c) == numberOfSocketsInARoom(c) = 0

\* socket.on("disconnect"): the socket has left its room, deleteARoomState
\* reads the size of the room and sends the deleteOne when it is empty
Disconnect(c) ==
  /\ sockets[c] = "live"
  /\ sockets' = [sockets EXCEPT ![c] = "closed"]
  /\ deletes' = IF deleteARoomState(c)
                THEN [deletes EXCEPT ![username(c)] = @ + 1]
                ELSE deletes
  /\ wire' = <<>>
  /\ UNCHANGED <<tasks, roomsStates, calls, nextId, ncalls, history>>

\* a deleteOne without filter: it removes a room state of any room
DeleteOneOfAnyRoom(u) ==
  /\ deletes[u] > 0
  /\ deletes' = [deletes EXCEPT ![u] = @ - 1]
  /\ \E r \in DOMAIN roomsStates \cup {u} :
       roomsStates' = [x \in DOMAIN roomsStates \ {r} |-> roomsStates[x]]
  /\ wire' = <<>>
  /\ UNCHANGED <<sockets, tasks, calls, nextId, ncalls, history>>

\* roomsStates.deleteOne({room: username}) of deleteARoomState takes effect
DeleteOne(u) ==
  /\ deletes[u] > 0
  /\ deletes' = [deletes EXCEPT ![u] = @ - 1]
  /\ roomsStates' = WithoutFirst(u)
  /\ wire' = <<>>
  /\ UNCHANGED <<sockets, tasks, calls, nextId, ncalls, history>>

\* an event of a connected socket reaches its listener, which runs up to its
\* first await
Receive(call) ==
  /\ sockets[call.conn] = "live"
  /\ ncalls < MaxCalls
  /\ ncalls' = ncalls + 1
  /\ calls' = calls \cup {call}
  /\ wire' = <<>>

\* a listener returns
Return(call) == calls' = calls \ {call}
\* a listener goes on to its next await
Goto(call, next) == calls' = (calls \ {call}) \cup {next}

(* ---------------------------- roomState ------------------------------- *)
\* socket.on("roomState:update"), up to the await of updateOne
RoomStateUpdateReceive(c, activeTaskId) ==
  /\ Receive(Call("roomState:update", c, 0, 0, activeTaskId, NoTime, "updateOne"))
  /\ UNCHANGED <<sockets, tasks, roomsStates, deletes, nextId, history>>

\* roomsStates.updateOne(filter, {$set: {activeTaskId}}, {upsert: true}) as
\* one write: the document the filter finds gets the activeTaskId, and when
\* it finds none a document is inserted
UpsertRoomState(u, activeTaskId) ==
  [r \in DOMAIN roomsStates \cup {u} |->
     IF r = u THEN activeTaskId ELSE roomsStates[r]]

\* the updateOne of roomState:update takes effect with no other write between
\* its query and its write, and the callback is called
RoomStateUpdate(call) ==
  /\ call \in calls /\ call.op = "roomState:update" /\ call.pc = "updateOne"
  /\ roomsStates' = UpsertRoomState(username(call.conn), OrEmptyString(call.activeTaskId))
  /\ wire' = <<Ack(call, "Room states updated!")>>
  /\ Return(call)
  /\ written' = [r \in DOMAIN written \cup {username(call.conn)} |->
                   IF r = username(call.conn) THEN roomsStates'[r] ELSE written[r]]
  /\ UNCHANGED <<sockets, tasks, deletes, nextId, ncalls, registered, applied>>

\* socket.on("roomState:read"), up to the await of findOne
RoomStateReadReceive(c) ==
  /\ Receive(Call("roomState:read", c, 0, 0, Undefined, NoTime, "findOne"))
  /\ UNCHANGED <<sockets, tasks, roomsStates, deletes, nextId, history>>

\* an answer of roomState:read that carries the room state of u1, whoever asks
RoomStateOfFirstUser(call, activeTaskId) ==
  [ev |-> "roomState", to |-> call.conn, from |-> call, message |-> "",
   indexInTasksOfDays |-> 0, activeTaskId |-> ReadActiveTaskId("u1")]

\* the argument of the callback of roomState:read: the room state
RoomState(call, activeTaskId) ==
  [ev |-> "roomState", to |-> call.conn, from |-> call, message |-> "",
   indexInTasksOfDays |-> 0, activeTaskId |-> activeTaskId]

\* the findOne of roomState:read returns; the callback is called when a room
\* state was found
RoomStateRead(call) ==
  /\ call \in calls /\ call.op = "roomState:read" /\ call.pc = "findOne"
  /\ wire' = IF username(call.conn) \in DOMAIN roomsStates
             THEN <<RoomState(call, roomsStates[username(call.conn)])>>
             ELSE <<>>
  /\ Return(call)
  /\ UNCHANGED <<sockets, tasks, roomsStates, deletes, nextId, ncalls, history>>

(* ------------------------- overlapping upserts ------------------------ *)
\* An updateOne with upsert first looks for a document that matches
\* {room: username} and inserts one when it finds none; two upserts whose
\* queries both find none both insert.
\* the query of the upsert of roomState:update has found no document of the
\* room: the insert follows
RoomStateUpdateQuery(call) ==
  /\ call \in calls /\ call.op = "roomState:update" /\ call.pc = "updateOne"
  /\ Documents(username(call.conn)) = {}
  /\ Goto(call, [call EXCEPT !.pc = "insert"])
  /\ wire' = <<>>
  /\ UNCHANGED <<sockets, tasks, roomsStates, deletes, nextId, ncalls, history>>

\* the insert of the upsert takes effect, whether another upsert has inserted
\* a document of the room since the query or not, and the callback is called
RoomStateUpdateInsert(call) ==
  /\ call \in calls /\ call.op = "roomState:update" /\ call.pc = "insert"
  /\ roomsStates' = UpsertRoomState(NewDocument(username(call.conn)),
                                    OrEmptyString(call.activeTaskId))
  /\ wire' = <<Ack(call, "Room states updated!")>>
  /\ Return(call)
  /\ written' = [r \in DOMAIN written \cup {username(call.conn)} |->
                   IF r = username(call.conn)
                   THEN OrEmptyString(call.activeTaskId) ELSE written[r]]
  /\ UNCHANGED <<sockets, tasks, deletes, nextId, ncalls, registered, applied>>

(* ------------------------------- tasks -------------------------------- *)
\* the names a client gives to a task
Names == {"n", "m"}

\* the tasks a client can send: a name, and a doer and a date of its own or
\* none
NewTasks == [name : Names, doer : Users \cup {"undefined"}, date : Times \cup {NoTime}]

\* the task as the client sent it
KeepDoerAndDate(newTask, doer, now) == newTask

\* newTask.doer = username; newTask.date = new Date()
AddDoerAndDate(newTask, doer, now) == [newTask EXCEPT !.doer = doer, !.date = now]

\* socket.on("tasks:create"), up to the await of insertOne: doer and date are
\* set on the task the client sent, and insertOne gives it its _id
TasksCreateReceive(c, newTask, now) ==
  /\ LET doc == AddDoerAndDate(newTask, username(c), now)
     IN Receive([Call("tasks:create", c, nextId, 0, Undefined, doc.date, "insertOne")
                   EXCEPT !.name = doc.name, !.doer = doc.doer, !.newTask = newTask])
  /\ nextId' = nextId + 1
  /\ UNCHANGED <<sockets, tasks, roomsStates, deletes, history>>

\* tasks.insertOne(newTask): the collection after the insertion
InsertOne(id, doc) ==
  [t \in DOMAIN tasks \cup {id} |-> IF t = id THEN doc ELSE tasks[t]]

\* the insertOne of tasks:create takes effect; the callback is called and
\* then tasks:change is emitted with index 0
TasksCreate(call) ==
  /\ call \in calls /\ call.op = "tasks:create" /\ call.pc = "insertOne"
  /\ tasks' = InsertOne(call.id, [doer |-> call.doer, name |-> call.name,
                                  date |-> call.startTime, workedTimeSpans |-> <<>>])
  /\ wire' = <<Ack(call, "Successfuly created the new task"),
               TasksChange(call, 0, Undefined)>>
  /\ Return(call)
  /\ UNCHANGED <<sockets, roomsStates, deletes, nextId, ncalls, history>>

\* a find whose query has no doer
FindOfAnyDoer(tks, doer, startDate, endDate) ==
  [id \in {t \in DOMAIN tks : /\ tks[t].date >= startDate
                              /\ tks[t].date <= endDate} |-> tks[id]]

\* tasks.find({doer: username, date: {$gte: startDate, $lte: endDate}})
\* .toArray(): the documents of the array, each under its _id
Find(tks, doer, startDate, endDate) ==
  [id \in {t \in DOMAIN tks : /\ tks[t].doer = doer
                              /\ tks[t].date >= startDate
                              /\ tks[t].date <= endDate} |-> tks[id]]

\* socket.on("tasks:read"), up to the await of toArray
TasksReadReceive(c) ==
  /\ Receive(Call("tasks:read", c, 0, 0, Undefined, NoTime, "toArray"))
  /\ UNCHANGED <<sockets, tasks, roomsStates, deletes, nextId, history>>

\* toArray gives the documents and the callback gets {tasks: result}; the
\* dates of the range are kept with the listener
TasksRead(call, startDate, endDate) ==
  /\ call \in calls /\ call.op = "tasks:read" /\ call.pc = "toArray"
  /\ wire' = <<Ack(call @@ [startDate |-> startDate, endDate |-> endDate],
                   <<[tasks |-> Find(tasks, username(call.conn), startDate, endDate)]>>)>>
  /\ Return(call)
  /\ UNCHANGED <<sockets, tasks, roomsStates, deletes, nextId, ncalls, history>>

\* socket.on("tasks:delete"), up to the await of deleteOne
TasksDeleteReceive(c, id) ==
  /\ Receive(Call("tasks:delete", c, id, 0, Undefined, NoTime, "deleteOne"))
  /\ UNCHANGED <<sockets, tasks, roomsStates, deletes, nextId, history>>

\* the deleteOne of tasks:delete takes effect: the query is {_id} alone; when
\* a document was deleted the callback is called and tasks:change is emitted
\* with "" as activeTaskId if isTaskActive, with undefined otherwise
TasksDelete(call, isTaskActive, index) ==
  /\ call \in calls /\ call.op = "tasks:delete" /\ call.pc = "deleteOne"
  /\ IF call.id \in DOMAIN tasks
     THEN /\ tasks' = [t \in DOMAIN tasks \ {call.id} |-> tasks[t]]
          /\ wire' = LET from == [call EXCEPT !.isTaskActive = isTaskActive,
                                               !.indexInTasksOfDays = index]
                     IN <<Ack(from, "Successfully deleted the task!"),
                          TasksChange(from, index,
                                      IF isTaskActive THEN EmptyString ELSE Undefined)>>
     ELSE /\ tasks' = tasks
          /\ wire' = <<>>
  /\ Return(call)
  /\ UNCHANGED <<sockets, roomsStates, deletes, nextId, ncalls, history>>

\* socket.on("taskName:update"), up to the await of updateOne
TaskNameUpdateReceive(c, id, name) ==
  /\ Receive([Call("taskName:update", c, id, 0, Undefined, NoTime, "updateOne")
                EXCEPT !.name = name])
  /\ UNCHANGED <<sockets, tasks, roomsStates, deletes, nextId, history>>

\* the updateOne of taskName:update takes effect; when it modified the
\* document tasks:change is emitted and then the callback is called
TaskNameUpdate(call, index) ==
  /\ call \in calls /\ call.op = "taskName:update" /\ call.pc = "updateOne"
  /\ tasks' = IF call.id \in DOMAIN tasks
              THEN [tasks EXCEPT ![call.id].name = call.name]
              ELSE tasks
  /\ wire' = IF tasks' # tasks
             THEN LET from == [call EXCEPT !.indexInTasksOfDays = index]
                  IN <<TasksChange(from, index, Undefined),
                       Ack(from, "Successfully updated the task name!")>>
             ELSE <<>>
  /\ Return(call)
  /\ UNCHANGED <<sockets, roomsStates, deletes, nextId, ncalls, history>>

(* ------------------------- workedTimeSpan:start ----------------------- *)
\* socket.on("workedTimeSpan:start"), up to the await of updateOne: the
\* workedTimeSpan object gets its ObjectId and its startTime here
WorkedTimeSpanStartReceive(c, id, now) ==
  /\ Receive(Call("workedTimeSpan:start", c, id, nextId, Undefined, now, "updateOne"))
  /\ nextId' = nextId + 1
  /\ UNCHANGED <<sockets, tasks, roomsStates, deletes, history>>

\* an update that sets workedTimeSpans to the new workedTimeSpan
PushSet(doc, workedTimeSpan) ==
  [doc EXCEPT !.workedTimeSpans = <<workedTimeSpan>>]

\* tasks.updateOne({_id}, {$push: {workedTimeSpans: workedTimeSpan}}): the
\* document after the update
Push(doc, workedTimeSpan) ==
  [doc EXCEPT !.workedTimeSpans = Append(@, workedTimeSpan)]

\* the updateOne of workedTimeSpan:start takes effect; when a document was
\* modified the callback is called and then tasks:change is emitted
WorkedTimeSpanStart(call, index) ==
  /\ call \in calls /\ call.op = "workedTimeSpan:start" /\ call.pc = "updateOne"
  /\ IF call.id \in DOMAIN tasks
     THEN /\ tasks' = [tasks EXCEPT ![call.id] =
                         Push(@, [id |-> call.wid, startTime |-> call.startTime,
                                  endTime |-> NoTime])]
          /\ wire' = LET from == [call EXCEPT !.indexInTasksOfDays = index]
                     IN <<Ack(from, "Happy working!"), TasksChange(from, index, call.id)>>
     ELSE /\ tasks' = tasks
          /\ wire' = <<>>
  /\ Return(call)
  /\ applied' = Recorded(call)
  /\ UNCHANGED <<sockets, roomsStates, deletes, nextId, ncalls, registered, written>>

(* -------------------------- workedTimeSpan:end ------------------------ *)
\* sendResponse that emits the default activeTaskId whatever its argument
sendResponseDefault(call, activeTaskId) ==
  <<Ack(call, "Work done!")>> \o
  (IF call.indexInTasksOfDays >= 0
   THEN <<TasksChange(call, call.indexInTasksOfDays, EmptyString)>>
   ELSE <<>>)

\* sendResponse that emits whatever the index is
sendResponseAnyIndex(call, activeTaskId) ==
  <<Ack(call, "Work done!"),
    TasksChange(call, call.indexInTasksOfDays,
                IF activeTaskId = Undefined THEN EmptyString ELSE activeTaskId)>>

\* sendResponse that emits before it calls the callback
sendResponseEmitFirst(call, activeTaskId) ==
  (IF call.indexInTasksOfDays >= 0
   THEN <<TasksChange(call, call.indexInTasksOfDays,
                      IF activeTaskId = Undefined THEN EmptyString ELSE activeTaskId)>>
   ELSE <<>>) \o
  <<Ack(call, "Work done!")>>

\* sendResponse(activeTaskId = ""): the callback is called, then tasks:change
\* is emitted to the room when indexInTasksOfDays >= 0
sendResponse(call, activeTaskId) ==
  <<Ack(call, "Work done!")>> \o
  (IF call.indexInTasksOfDays >= 0
   THEN <<TasksChange(call, call.indexInTasksOfDays,
                      IF activeTaskId = Undefined THEN EmptyString ELSE activeTaskId)>>
   ELSE <<>>)

\* socket.on("workedTimeSpan:end"), up to the await of roomsStates.findOne
WorkedTimeSpanEndReceive(c, id, wid) ==
  /\ Receive(Call("workedTimeSpan:end", c, id, wid, Undefined, NoTime, "findRoomState"))
  /\ UNCHANGED <<sockets, tasks, roomsStates, deletes, nextId, history>>

\* roomsStates.findOne({room: username}) returns: activeTaskId is set
WorkedTimeSpanEndFindRoomState(call) ==
  /\ call \in calls /\ call.op = "workedTimeSpan:end" /\ call.pc = "findRoomState"
  /\ Goto(call, [call EXCEPT !.activeTaskId = ReadActiveTaskId(username(call.conn)),
                             !.pc = "findTask"])
  /\ wire' = <<>>
  /\ UNCHANGED <<sockets, tasks, roomsStates, deletes, nextId, ncalls, history>>

\* the filter {_id, "workedTimeSpans._id"} matches a stored document
FilterMatches(id, wid) == id \in DOMAIN tasks /\ Matching(tasks[id], wid) # {}

\* a positional operator that stands for the first workedTimeSpan of the
\* document
PositionalFirst(doc, wid) == 1

\* the workedTimeSpan the positional operator $ stands for: the first one of
\* the document that matches the filter
Positional(doc, wid) == Min(Matching(doc, wid))

\* RegisteringNotAllowed without the test of wasDisconnected
RegisteringNotAllowedNoGuard(call, wasDisconnected) ==
  IF ~FilterMatches(call.id, call.wid)
  THEN TRUE
  ELSE tasks[call.id].workedTimeSpans[Positional(tasks[call.id], call.wid)].endTime # NoTime

\* RegisteringNotAllowed with a guard that only holds back the end of the
\* task the room state names
RegisteringNotAllowedSameTask(call, wasDisconnected) ==
  IF ~FilterMatches(call.id, call.wid)
  THEN TRUE
  ELSE \/ tasks[call.id].workedTimeSpans[Positional(tasks[call.id], call.wid)].endTime # NoTime
       \/ (wasDisconnected /\ call.activeTaskId = call.id)

\* the condition of the early return of workedTimeSpan:end, on the result of
\* tasks.findOne(filter, {projection: {"workedTimeSpans.$": 1}})
RegisteringNotAllowed(call, wasDisconnected) ==
  IF ~FilterMatches(call.id, call.wid)
  THEN TRUE
  ELSE \/ tasks[call.id].workedTimeSpans[Positional(tasks[call.id], call.wid)].endTime # NoTime
       \/ (wasDisconnected /\ Truthy(call.activeTaskId))

\* tasks.findOne returns and registering is not allowed: the listener returns
\* sendResponse(activeTaskId)
WorkedTimeSpanEndReturn(call, wasDisconnected, index) ==
  /\ call \in calls /\ call.op = "workedTimeSpan:end" /\ call.pc = "findTask"
  /\ RegisteringNotAllowed(call, wasDisconnected)
  /\ wire' = sendResponse([call EXCEPT !.wasDisconnected = wasDisconnected,
                                         !.indexInTasksOfDays = index],
                           call.activeTaskId)
  /\ Return(call)
  /\ applied' = Recorded([call EXCEPT !.wasDisconnected = wasDisconnected])
  /\ UNCHANGED <<sockets, tasks, roomsStates, deletes, nextId, ncalls, registered,
                 written>>

\* endTime ? new Date(endTime) : new Date()
EndTimeValue(endTime, now) == IF endTime # NoTime THEN endTime ELSE now

\* tasks.findOne returns and registering is allowed: the listener builds the
\* update, reading the clock when the payload has no endTime, and awaits the
\* updateOne
WorkedTimeSpanEndFindTask(call, endTime, wasDisconnected, now) ==
  /\ call \in calls /\ call.op = "workedTimeSpan:end" /\ call.pc = "findTask"
  /\ ~RegisteringNotAllowed(call, wasDisconnected)
  /\ Goto(call, [call EXCEPT !.wasDisconnected = wasDisconnected,
                             !.endTime = endTime,
                             !.now = IF endTime # NoTime THEN NoTime ELSE now,
                             !.pc = "updateOne"])
  /\ wire' = <<>>
  /\ UNCHANGED <<sockets, tasks, roomsStates, deletes, nextId, ncalls, history>>

\* an update that sets the endTime of all workedTimeSpans of the document
SetEndTimeAll(doc, wid, value) ==
  [doc EXCEPT !.workedTimeSpans =
     [i \in DOMAIN @ |-> [@[i] EXCEPT !.endTime = value]]]

\* {$set: {"workedTimeSpans.$.endTime": value}} on a document the filter matches
SetEndTime(doc, wid, value) ==
  [doc EXCEPT !.workedTimeSpans[Positional(doc, wid)].endTime = value]

\* an updateOne of workedTimeSpan:end followed by an update that clears the
\* activeTaskId of the room state
WorkedTimeSpanEndClearing(call, index) ==
  /\ call \in calls /\ call.op = "workedTimeSpan:end" /\ call.pc = "updateOne"
  /\ tasks' = IF FilterMatches(call.id, call.wid)
              THEN [tasks EXCEPT ![call.id] =
                      SetEndTime(@, call.wid, EndTimeValue(call.endTime, call.now))]
              ELSE tasks
  /\ roomsStates' = IF tasks' # tasks
                    THEN UpsertRoomState(username(call.conn), EmptyString)
                    ELSE roomsStates
  /\ wire' = IF tasks' # tasks
             THEN sendResponse([call EXCEPT !.indexInTasksOfDays = index], Undefined)
             ELSE <<>>
  /\ Return(call)
  /\ registered' = IF tasks' # tasks
                   THEN Append(registered, [id |-> call.id, wid |-> call.wid,
                                            sent |-> wire'])
                   ELSE registered
  /\ applied' = Recorded(call)
  /\ UNCHANGED <<sockets, deletes, nextId, ncalls, written>>

\* the updateOne of workedTimeSpan:end takes effect; sendResponse() is called
\* when result.modifiedCount is not 0
WorkedTimeSpanEnd(call, index) ==
  /\ call \in calls /\ call.op = "workedTimeSpan:end" /\ call.pc = "updateOne"
  /\ tasks' = IF FilterMatches(call.id, call.wid)
              THEN [tasks EXCEPT ![call.id] =
                      SetEndTime(@, call.wid, EndTimeValue(call.endTime, call.now))]
              ELSE tasks
  /\ wire' = IF tasks' # tasks
             THEN sendResponse([call EXCEPT !.indexInTasksOfDays = index], Undefined)
             ELSE <<>>
  /\ Return(call)
  /\ registered' = IF tasks' # tasks
                   THEN Append(registered, [id |-> call.id, wid |-> call.wid,
                                            sent |-> wire'])
                   ELSE registered
  /\ applied' = Recorded(call)
  /\ UNCHANGED <<sockets, roomsStates, deletes, nextId, ncalls, written>>

(* ------------------------ workedTimeSpan:delete ----------------------- *)
\* socket.on("workedTimeSpan:delete"), up to the await of updateOne
WorkedTimeSpanDeleteReceive(c, id, wids) ==
  /\ Receive([Call("workedTimeSpan:delete", c, id, 0, Undefined, NoTime, "updateOne")
                EXCEPT !.wids = wids])
  /\ UNCHANGED <<sockets, tasks, roomsStates, deletes, nextId, history>>

\* an update that removes only the first workedTimeSpan whose id is in wids
PullFirst(doc, wids) ==
  LET found == {i \in DOMAIN doc.workedTimeSpans : doc.workedTimeSpans[i].id \in wids}
  IN IF found = {}
     THEN doc
     ELSE [doc EXCEPT !.workedTimeSpans =
             SubSeq(@, 1, Min(found) - 1) \o SubSeq(@, Min(found) + 1, Len(@))]

\* {$pull: {workedTimeSpans: {_id: {$in: workedTimeSpansObjectIds}}}}
Pull(doc, wids) ==
  [doc EXCEPT !.workedTimeSpans = SelectSeq(@, LAMBDA w : w.id \notin wids)]

\* the updateOne of workedTimeSpan:delete takes effect; when it modified the
\* document tasks:change is emitted; there is no callback
WorkedTimeSpanDelete(call, index) ==
  /\ call \in calls /\ call.op = "workedTimeSpan:delete" /\ call.pc = "updateOne"
  /\ tasks' = IF call.id \in DOMAIN tasks
              THEN [tasks EXCEPT ![call.id] = Pull(@, call.wids)]
              ELSE tasks
  /\ wire' = IF tasks' # tasks
             THEN <<TasksChange([call EXCEPT !.indexInTasksOfDays = index],
                                index, Undefined)>>
             ELSE <<>>
  /\ Return(call)
  /\ applied' = Recorded(call)
  /\ UNCHANGED <<sockets, roomsStates, deletes, nextId, ncalls, registered, written>>

(* ----------------------- workedTimeSpan:continue --------------------- *)
\* the reply of workedTimeSpan:continue, emitted to the room of the sender
WorkedTimeSpanContinueEmitToRoom(call) ==
  [ev |-> "workedTimeSpan:continue", to |-> username(call.conn), from |-> call,
   message |-> "", indexInTasksOfDays |-> 0, activeTaskId |-> Undefined,
   startTime |-> call.startTime, endTime |-> call.now]

\* socket.emit("workedTimeSpan:continue", startTime, new Date())
WorkedTimeSpanContinueEmit(call) ==
  [ev |-> "workedTimeSpan:continue", to |-> call.conn, from |-> call,
   message |-> "", indexInTasksOfDays |-> 0, activeTaskId |-> Undefined,
   startTime |-> call.startTime, endTime |-> call.now]

\* socket.on("workedTimeSpan:continue"): the listener has no await, it
\* replies and returns in the step that receives the event
WorkedTimeSpanContinue(c, startTime, now) ==
  /\ sockets[c] = "live"
  /\ ncalls < MaxCalls
  /\ ncalls' = ncalls + 1
  /\ wire' = <<WorkedTimeSpanContinueEmit(
                 [Call("workedTimeSpan:continue", c, 0, 0, Undefined, startTime, "done")
                    EXCEPT !.now = now])>>
  /\ UNCHANGED <<sockets, tasks, roomsStates, calls, deletes, nextId, history>>

(* ----------------------- totalCompletedTimes:read -------------------- *)
\* Instants of this part are milliseconds since 2023-11-04T00:00:00Z, and a
\* local date is the number of days since 2023-11-04.
Hour == 60 * 60 * 1000
oneDayInMs == 24 * 60 * 60 * 1000

\* timeZone arguments: no offset, a fixed offset, and a zone whose clocks go
\* back one hour in the days the instants cover
Zones == {"UTC", "Asia/Dhaka", "America/New_York"}
\* 2023-11-05T06:00:00Z, the end of daylight saving time in New York
FallBack == 30 * Hour
\* the offset of local time from UTC at an instant
UtcOffset(t, timeZone) ==
  CASE timeZone = "UTC" -> 0
    [] timeZone = "Asia/Dhaka" -> 6 * Hour
    [] timeZone = "America/New_York" -> IF t < FallBack THEN -(4 * Hour) ELSE -(5 * Hour)

\* {$dateToString: {format: "%Y-%m-%d", date: t, timezone: timeZone}}
dateToString(t, timeZone) == (t + UtcOffset(t, timeZone)) \div oneDayInMs

\* {$match: {doer: username, date: {$gte: startDate, $lte: endDate}}}
Match(tks, doer, startDate, endDate) ==
  {id \in DOMAIN tks : /\ tks[id].doer = doer
                       /\ tks[id].date >= startDate
                       /\ tks[id].date <= endDate}

\* {$sum: {$map: {input: "$workedTimeSpans", in: {$dateDiff: {startDate:
\* startTime, endDate: endTime, unit: "millisecond"}}}}}: $dateDiff is null
\* when there is no endTime, and $sum skips what is no number
RECURSIVE SumOfDateDiffs(_)
SumOfDateDiffs(spans) ==
  IF spans = <<>> THEN 0
  ELSE (IF Head(spans).endTime = NoTime
        THEN 0
        ELSE Head(spans).endTime - Head(spans).startTime)
       + SumOfDateDiffs(Tail(spans))

\* a projection that takes the localDate of a task from the startTime of its
\* first workedTimeSpan
ProjectByStartTime(doc, timeZone) ==
  [localDate |-> dateToString(IF doc.workedTimeSpans = <<>> THEN doc.date
                              ELSE doc.workedTimeSpans[1].startTime, timeZone),
   completedTime |-> SumOfDateDiffs(doc.workedTimeSpans)]

\* the first $project: localDate and completedTime of a task
Project(doc, timeZone) ==
  [localDate |-> dateToString(doc.date, timeZone),
   completedTime |-> SumOfDateDiffs(doc.workedTimeSpans)]

\* {$sum: "$completedTime"} over the projected tasks of a group
RECURSIVE SumCompletedTime(_, _, _)
SumCompletedTime(tks, ids, timeZone) ==
  IF ids = {} THEN 0
  ELSE LET id == CHOOSE x \in ids : TRUE
       IN Project(tks[id], timeZone).completedTime
          + SumCompletedTime(tks, ids \ {id}, timeZone)

\* $group by localDate and the second $project: one document for each
\* localDate of the matched tasks
Group(tks, ids, timeZone) ==
  {[localDate |-> d,
    completedTime |->
      SumCompletedTime(tks, {id \in ids : Project(tks[id], timeZone).localDate = d},
                       timeZone)] :
     d \in {Project(tks[id], timeZone).localDate : id \in ids}}

\* the arrays that hold the documents of a set: $group does not fix the
\* order of its output
Orders(S) ==
  {seq \in [1..Cardinality(S) -> S] :
     \A i, j \in 1..Cardinality(S) : seq[i] = seq[j] => i = j}

\* existingDatesCompletedTimes of the $facet, in each of its possible orders
existingDatesCompletedTimes(tks, doer, startDate, endDate, timeZone) ==
  Orders(Group(tks, Match(tks, doer, startDate, endDate), timeZone))

\* allDatesInitialCompletedTimes: $range [0, numberOfDaysCompletedTimes]
\* mapped to the localDate of startDateInMs + index * oneDayInMs
allDatesInitialCompletedTimes(numberOfDaysCompletedTimes, startDate, timeZone) ==
  [k \in 1..numberOfDaysCompletedTimes |->
     [localDate |-> dateToString(startDate + (k - 1) * oneDayInMs, timeZone),
      completedTime |-> 0]]

\* {$indexOfArray: ["$existingDatesCompletedTimes.localDate", localDate]},
\* counted from 1
indexOfArray(existing, localDate) ==
  Min({k \in DOMAIN existing : existing[k].localDate = localDate})

\* a merge that keeps every initial entry
allDatesCompletedTimesInitial(existing, initial) == initial

\* the last $project: an initial entry whose localDate is $in the existing
\* localDates is replaced by the existing document of that localDate
allDatesCompletedTimes(existing, initial) ==
  [k \in DOMAIN initial |->
     IF \E j \in DOMAIN existing : existing[j].localDate = initial[k].localDate
     THEN existing[indexOfArray(existing, initial[k].localDate)]
     ELSE initial[k]]

\* socket.on("totalCompletedTimes:read"), up to the await of aggregate
TotalCompletedTimesReadReceive(c) ==
  /\ Receive(Call("totalCompletedTimes:read", c, 0, 0, Undefined, NoTime, "aggregate"))
  /\ UNCHANGED <<sockets, tasks, roomsStates, deletes, nextId, history>>

\* the aggregate gives its one document, which the callback gets in an
\* array; the arguments of the event are kept with the listener
TotalCompletedTimesRead(call, startDate, endDate, numberOfDaysCompletedTimes, timeZone) ==
  /\ call \in calls /\ call.op = "totalCompletedTimes:read" /\ call.pc = "aggregate"
  /\ \E existing \in existingDatesCompletedTimes(tasks, username(call.conn),
                                                 startDate, endDate, timeZone) :
       wire' = <<Ack(call @@ [startDate |-> startDate, endDate |-> endDate,
                              numberOfDaysCompletedTimes |-> numberOfDaysCompletedTimes,
                              timeZone |-> timeZone],
                     <<[allDatesCompletedTimes |->
                          allDatesCompletedTimes(existing,
                            allDatesInitialCompletedTimes(numberOfDaysCompletedTimes,
                                                          startDate, timeZone))]>>)>>
  /\ Return(call)
  /\ UNCHANGED <<sockets, tasks, roomsStates, deletes, nextId, ncalls, history>>

\* the dates of creation of the stored tasks: before, in and after the
\* ranges asked for
TaskDates == {20 * Hour, 30 * Hour, 52 * Hour + Hour \div 2, 76 * Hour + Hour \div 2}
\* the workedTimeSpans of task id created at date: none; one closed after an
\* hour; one closed and one in progress; one whose endTime, sent by the
\* client, is an hour before its startTime
WorkedTimeSpansOf(id, date) ==
  {<<>>,
   <<[id |-> 2 * id - 1, startTime |-> date + Hour, endTime |-> date + 2 * Hour]>>,
   <<[id |-> 2 * id - 1, startTime |-> date + Hour, endTime |-> date + 2 * Hour],
     [id |-> 2 * id, startTime |-> date + 3 * Hour, endTime |-> NoTime]>>,
   <<[id |-> 2 * id - 1, startTime |-> date + 2 * Hour, endTime |-> date + Hour]>>}
\* the documents task id can be
Docs(id) ==
  UNION {{[doer |-> doer, name |-> "n", date |-> date, workedTimeSpans |-> spans] :
            doer \in Users, spans \in WorkedTimeSpansOf(id, date)} :
         date \in TaskDates}
\* the tasks collections the aggregate reads: no task, one task, and two
\* tasks of which the second has one closed workedTimeSpan
Collections ==
  {<<>>} \cup {<<doc>> : doc \in Docs(1)}
         \cup {<<doc1, doc2>> :
                 doc1 \in Docs(1),
                 doc2 \in {doc \in Docs(2) : /\ Len(doc.workedTimeSpans) = 1
                                             /\ doc.workedTimeSpans[1].endTime
                                                  > doc.workedTimeSpans[1].startTime}}

\* the store after tasks:create, workedTimeSpan:start and workedTimeSpan:end
\* events that left it with one of these collections
InitAggregator ==
  /\ sockets = [c \in Conn |-> "new"]
  /\ tasks \in Collections
  /\ roomsStates = [r \in {} |-> EmptyString]
  /\ calls = {}
  /\ deletes = [u \in Users |-> 0]
  /\ nextId = 5
  /\ ncalls = 0
  /\ registered = <<>>
  /\ applied = NotRecording
  /\ written = [r \in {} |-> EmptyString]
  /\ wire = <<>>

\* the arguments of totalCompletedTimes:read: the range starts at
\* 2023-11-05T04:30:00Z and ends at the date of a task or a day later
StartDates == {28 * Hour + Hour \div 2}
EndDates == {30 * Hour, 76 * Hour + Hour \div 2}

(* -------------------------- existingDates:read ------------------------ *)
\* {$match: {doer: username}}
MatchDoer(tks, doer) == {id \in DOMAIN tks : tks[id].doer = doer}

\* the first $group of existingDates:read: one document for each localDate,
\* with the date of the first task of that localDate; the tasks reach the
\* stage in no fixed order, so that any task of the group can be the first
GroupFirst(tks, ids, timeZone) ==
  LET localDates == {dateToString(tks[id].date, timeZone) : id \in ids}
      firsts == [localDates -> ids]
  IN {{[localDate |-> d, date |-> tks[first[d]].date] : d \in localDates} :
        first \in {f \in firsts :
                     \A d \in localDates : dateToString(tks[f[d]].date, timeZone) = d}}

\* a sort by date in ascending order
SortAscending(docs) ==
  CHOOSE seq \in Orders(docs) :
    \A i, j \in DOMAIN seq : i < j => seq[i].date <= seq[j].date

\* {$sort: {date: -1}}
SortDescending(docs) ==
  CHOOSE seq \in Orders(docs) :
    \A i, j \in DOMAIN seq : i < j => seq[i].date >= seq[j].date

\* the second $group: the localDates of the sorted documents pushed to the
\* one document of the result; no input document gives no document
PushLocalDates(sorted) ==
  IF sorted = <<>>
  THEN <<>>
  ELSE <<[localDates |-> [k \in DOMAIN sorted |-> sorted[k].localDate]]>>

\* socket.on("existingDates:read"), up to the await of aggregate
ExistingDatesReadReceive(c) ==
  /\ Receive(Call("existingDates:read", c, 0, 0, Undefined, NoTime, "aggregate"))
  /\ UNCHANGED <<sockets, tasks, roomsStates, deletes, nextId, history>>

\* the aggregate gives its documents and the callback gets them
ExistingDatesRead(call, timeZone) ==
  /\ call \in calls /\ call.op = "existingDates:read" /\ call.pc = "aggregate"
  /\ \E docs \in GroupFirst(tasks, MatchDoer(tasks, username(call.conn)), timeZone) :
       wire' = <<Ack(call @@ [timeZone |-> timeZone],
                     PushLocalDates(SortDescending(docs)))>>
  /\ Return(call)
  /\ UNCHANGED <<sockets, tasks, roomsStates, deletes, nextId, ncalls, history>>

(* --------------------------- storage failure -------------------------- *)
\* The storage call a listener awaits fails: the await throws in the async
\* listener, which has no try/catch, so the listener ends without calling
\* its callback and nothing is stored.  What the process does with the
\* rejection nobody handles depends on the Node.js version: it goes on
\* (exits = FALSE), or it exits, which closes every socket and ends every
\* listener without running the disconnect listeners (exits = TRUE).
StorageFails(call, exits) ==
  /\ call \in calls
  /\ wire' = <<>>
  /\ IF exits
     THEN /\ sockets' = [c \in Conn |-> IF sockets[c] = "live" THEN "closed" ELSE sockets[c]]
          /\ calls' = {}
     ELSE /\ sockets' = sockets
          /\ Return(call)
  /\ UNCHANGED <<tasks, roomsStates, deletes, nextId, ncalls, history>>

(* ------------------------------ handshake ----------------------------- *)
\* socket.handshake.auth.token as the words between its spaces: no token,
\* a signed token without the word Bearer, Bearer and a signed token, Bearer
\* and a token that jwt.verify refuses (wrong signature, expired, no JWT)
Tokens == {<<>>, <<"signed">>, <<"Bearer", "signed">>, <<"Bearer", "forged">>}

\* socket.handshake?.auth?.token?.split(" ")[1]
SplitToken(token) == IF Len(token) >= 2 THEN token[2] ELSE "undefined"

\* a verification that accepts whatever it is given
jwtVerifyAny(word) == TRUE

\* jwt.verify(token, ACCESS_TOKEN_SECRET, ...) gives no err
jwtVerify(word) == word = "signed"

\* next(err): the socket is not connected and the connection event, which
\* joins the room and registers the listeners, does not happen
Reject(c) ==
  /\ sockets[c] = "new"
  /\ sockets' = [sockets EXCEPT ![c] = "rejected"]
  /\ wire' = <<>>
  /\ UNCHANGED <<tasks, roomsStates, calls, deletes, nextId, ncalls, history>>

\* io.use: the middleware that runs once for a socket that connects
Handshake(c, token) ==
  IF jwtVerify(SplitToken(token)) THEN Connect(c) ELSE Reject(c)

(* ------------------------------- startup ------------------------------ *)
\* run(), the async function that connects to the store and then registers
\* the connection listener: its position is kept like that of a listener,
\* "connect" and "ping" at its awaits, "ready" once io.on("connection") is
\* registered, "failed" once an await has thrown and run().catch has logged it
Run(pc) ==
  [Call("run", "server", 0, 0, Undefined, NoTime, pc) EXCEPT !.seq = 0]

\* the module is loaded: run() awaits client.connect(), and app.get("/") and
\* server.listen(port), which follow the call of run(), have been executed
InitStartup ==
  /\ sockets = [c \in Conn |-> "new"]
  /\ tasks = (1 :> [doer |-> "u1", name |-> "n", date |-> 1,
                    workedTimeSpans |-> <<[id |-> 1, startTime |-> 1, endTime |-> NoTime]>>])
  /\ roomsStates = [r \in {} |-> EmptyString]
  /\ ncalls = 0
  /\ calls = {Run("connect")}
  /\ deletes = [u \in Users |-> 0]
  /\ nextId = 2
  /\ registered = <<>>
  /\ applied = NotRecording
  /\ written = [r \in {} |-> EmptyString]
  /\ wire = <<>>

\* await client.connect() returns or throws
ClientConnect(ok) ==
  /\ Run("connect") \in calls
  /\ Goto(Run("connect"), IF ok THEN Run("ping") ELSE Run("failed"))
  /\ wire' = <<>>
  /\ UNCHANGED <<sockets, tasks, roomsStates, deletes, nextId, ncalls, history>>

\* await client.db("admin").command({ping: 1}) returns or throws; after it
\* run() registers the routes and the connection listener
Ping(ok) ==
  /\ Run("ping") \in calls
  /\ Goto(Run("ping"), IF ok THEN Run("ready") ELSE Run("failed"))
  /\ wire' = <<>>
  /\ UNCHANGED <<sockets, tasks, roomsStates, deletes, nextId, ncalls, history>>

\* app.get("/"): the server listens since the module was loaded and answers
HttpGet ==
  /\ ncalls < MaxCalls
  /\ ncalls' = ncalls + 1
  /\ wire' = <<[ev |-> "http", to |-> "client",
                from |-> Call("GET /", "server", 0, 0, Undefined, NoTime, "done"),
                message |-> "server up and running!", indexInTasksOfDays |-> 0,
                activeTaskId |-> Undefined]>>
  /\ UNCHANGED <<sockets, tasks, roomsStates, calls, deletes, nextId, history>>

\* a socket whose token is verified connects while no connection listener
\* is registered: it joins no room and gets no listener
ConnectWithoutListener(c) ==
  /\ sockets[c] = "new"
  /\ sockets' = [sockets EXCEPT ![c] = "open"]
  /\ wire' = <<>>
  /\ UNCHANGED <<tasks, roomsStates, calls, deletes, nextId, ncalls, history>>

\* a socket connects to the listening server: io.use, registered when the
\* module was loaded, verifies the token, and the connection event reaches
\* the listener of run() if that is registered
Accept(c, token) ==
  IF ~jwtVerify(SplitToken(token)) THEN Reject(c)
  ELSE IF Run("ready") \in calls THEN Connect(c)
  ELSE ConnectWithoutListener(c)

(* ------------------------------- Next --------------------------------- *)
\* the sockets of u1
Devices == {"A", "B"}

\* the listeners that end a workedTimeSpan and that report the room state, on
\* the sockets of one user
Next ==
  \/ \E c \in Devices : Connect(c)
  \/ \E c \in Devices, a \in ActiveTaskIdArgs : RoomStateUpdateReceive(c, a)
  \/ \E call \in calls : RoomStateUpdate(call)
  \/ \E call \in calls : RoomStateUpdateQuery(call)
  \/ \E call \in calls : RoomStateUpdateInsert(call)
  \/ \E c \in Devices, id \in TaskIds, wid \in NoSpan..(nextId - 1) :
       WorkedTimeSpanEndReceive(c, id, wid)
  \/ \E call \in calls : WorkedTimeSpanEndFindRoomState(call)
  \/ \E call \in calls, wasDisconnected \in BOOLEAN, index \in IndexArgs :
       WorkedTimeSpanEndReturn(call, wasDisconnected, index)
  \/ \E call \in calls, endTime \in EndTimeArgs, wasDisconnected \in BOOLEAN,
        now \in Times :
       WorkedTimeSpanEndFindTask(call, endTime, wasDisconnected, now)
  \/ \E call \in calls, index \in IndexArgs : WorkedTimeSpanEnd(call, index)

Spec == Init /\ [][Next]_vars

\* the session registry: sockets come and go and report their state, a task
\* in progress or none
NextRegistry ==
  \/ \E c \in Conn : Connect(c)
  \/ \E c \in Conn : Disconnect(c)
  \/ \E u \in Users : DeleteOne(u)
  \/ \E c \in Conn, a \in {Undefined, 1} : RoomStateUpdateReceive(c, a)
  \/ \E call \in calls : RoomStateUpdate(call)
  \/ \E call \in calls : RoomStateUpdateQuery(call)
  \/ \E call \in calls : RoomStateUpdateInsert(call)
  \/ \E c \in Conn : RoomStateReadReceive(c)
  \/ \E call \in calls : RoomStateRead(call)

SpecRegistry == Init /\ [][NextRegistry]_vars

\* the sessions of one user: sockets present a token, come and go, report
\* their state and ask for the clock
NextSession ==
  \/ \E c \in Devices, token \in Tokens : Handshake(c, token)
  \/ \E c \in Devices : Disconnect(c)
  \/ \E u \in Users : DeleteOne(u)
  \/ \E c \in Devices, a \in ActiveTaskIdArgs : RoomStateUpdateReceive(c, a)
  \/ \E call \in calls : RoomStateUpdate(call)
  \/ \E call \in calls : RoomStateUpdateQuery(call)
  \/ \E call \in calls : RoomStateUpdateInsert(call)
  \/ \E c \in Devices, startTime \in EndTimeArgs, now \in Times :
       WorkedTimeSpanContinue(c, startTime, now)

SpecSession == Init /\ [][NextSession]_vars

\* the ObjectIds generated so far, and one that names nothing stored
Ids == 1..nextId

\* one socket; its listeners run concurrently like those of several sockets
Device == {"A"}

\* the listeners that write to the tasks collection, on one socket, while no
\* room state is stored
NextTasks ==
  \/ \E c \in Device : Connect(c)
  \/ \E c \in Device, name \in Names, now \in Times :
       TasksCreateReceive(c, [name |-> name, doer |-> "undefined", date |-> NoTime], now)
  \/ \E call \in calls : TasksCreate(call)
  \/ \E c \in Device, id \in Ids : TasksDeleteReceive(c, id)
  \/ \E call \in calls, isTaskActive \in BOOLEAN, index \in IndexArgs :
       TasksDelete(call, isTaskActive, index)
  \/ \E c \in Device, id \in Ids, name \in Names : TaskNameUpdateReceive(c, id, name)
  \/ \E call \in calls, index \in IndexArgs : TaskNameUpdate(call, index)
  \/ \E c \in Device, id \in Ids, now \in Times :
       WorkedTimeSpanStartReceive(c, id, now)
  \/ \E call \in calls, index \in IndexArgs : WorkedTimeSpanStart(call, index)
  \/ \E c \in Device, id \in Ids, wid \in Ids :
       WorkedTimeSpanEndReceive(c, id, wid)
  \/ \E call \in calls : WorkedTimeSpanEndFindRoomState(call)
  \/ \E call \in calls, wasDisconnected \in BOOLEAN, index \in IndexArgs :
       WorkedTimeSpanEndReturn(call, wasDisconnected, index)
  \/ \E call \in calls, endTime \in EndTimeArgs, wasDisconnected \in BOOLEAN,
        now \in Times :
       WorkedTimeSpanEndFindTask(call, endTime, wasDisconnected, now)
  \/ \E call \in calls, index \in IndexArgs : WorkedTimeSpanEnd(call, index)
  \/ \E c \in Device, id \in Ids, wids \in SUBSET Ids :
       WorkedTimeSpanDeleteReceive(c, id, wids)
  \/ \E call \in calls, index \in IndexArgs : WorkedTimeSpanDelete(call, index)

SpecTasks == Init /\ [][NextTasks]_vars

\* a socket of u2, who is not the doer of the stored task
Strangers == {"C"}

\* the listeners that take the id of a task from the client, on a socket of
\* a user who is not the doer of the stored task
NextOwnership ==
  \/ \E c \in Strangers : Connect(c)
  \/ \E c \in Strangers, id \in Ids : TasksDeleteReceive(c, id)
  \/ \E call \in calls, isTaskActive \in BOOLEAN, index \in IndexArgs :
       TasksDelete(call, isTaskActive, index)
  \/ \E c \in Strangers, id \in Ids, name \in Names : TaskNameUpdateReceive(c, id, name)
  \/ \E call \in calls, index \in IndexArgs : TaskNameUpdate(call, index)
  \/ \E c \in Strangers, id \in Ids, now \in Times :
       WorkedTimeSpanStartReceive(c, id, now)
  \/ \E call \in calls, index \in IndexArgs : WorkedTimeSpanStart(call, index)
  \/ \E c \in Strangers, id \in Ids, wid \in Ids :
       WorkedTimeSpanEndReceive(c, id, wid)
  \/ \E call \in calls : WorkedTimeSpanEndFindRoomState(call)
  \/ \E call \in calls, wasDisconnected \in BOOLEAN, index \in IndexArgs :
       WorkedTimeSpanEndReturn(call, wasDisconnected, index)
  \/ \E call \in calls, endTime \in EndTimeArgs, wasDisconnected \in BOOLEAN,
        now \in Times :
       WorkedTimeSpanEndFindTask(call, endTime, wasDisconnected, now)
  \/ \E call \in calls, index \in IndexArgs : WorkedTimeSpanEnd(call, index)
  \/ \E c \in Strangers, id \in Ids, wids \in SUBSET Ids :
       WorkedTimeSpanDeleteReceive(c, id, wids)
  \/ \E call \in calls, index \in IndexArgs : WorkedTimeSpanDelete(call, index)

SpecOwnership == Init /\ [][NextOwnership]_vars

\* the socket that reads the completed times
Reader == {"A"}

\* the aggregate of totalCompletedTimes:read over a stored collection
NextAggregator ==
  \/ \E c \in Reader : Connect(c)
  \/ \E c \in Reader : TotalCompletedTimesReadReceive(c)
  \/ \E call \in calls, startDate \in StartDates, endDate \in EndDates,
        numberOfDaysCompletedTimes \in 0..MaxDays, timeZone \in Zones :
       TotalCompletedTimesRead(call, startDate, endDate,
                               numberOfDaysCompletedTimes, timeZone)

SpecAggregator == InitAggregator /\ [][NextAggregator]_vars

\* the aggregate of existingDates:read over a stored collection
NextDates ==
  \/ \E c \in Reader : Connect(c)
  \/ \E c \in Reader : ExistingDatesReadReceive(c)
  \/ \E call \in calls, timeZone \in Zones : ExistingDatesRead(call, timeZone)

SpecDates == InitAggregator /\ [][NextDates]_vars

\* the listeners of roomState:update and workedTimeSpan:end on one socket,
\* with storage calls that can fail
NextFailure ==
  \/ \E c \in Device : Connect(c)
  \/ \E c \in Device, a \in ActiveTaskIdArgs : RoomStateUpdateReceive(c, a)
  \/ \E call \in calls : RoomStateUpdate(call)
  \/ \E call \in calls : RoomStateUpdateQuery(call)
  \/ \E call \in calls : RoomStateUpdateInsert(call)
  \/ \E c \in Device, id \in TaskIds, wid \in NoSpan..(nextId - 1) :
       WorkedTimeSpanEndReceive(c, id, wid)
  \/ \E call \in calls : WorkedTimeSpanEndFindRoomState(call)
  \/ \E call \in calls, wasDisconnected \in BOOLEAN, index \in IndexArgs :
       WorkedTimeSpanEndReturn(call, wasDisconnected, index)
  \/ \E call \in calls, endTime \in EndTimeArgs, wasDisconnected \in BOOLEAN,
        now \in Times :
       WorkedTimeSpanEndFindTask(call, endTime, wasDisconnected, now)
  \/ \E call \in calls, index \in IndexArgs : WorkedTimeSpanEnd(call, index)
  \/ \E call \in calls, exits \in BOOLEAN : StorageFails(call, exits)

SpecFailure == Init /\ [][NextFailure]_vars

\* the start of the process and what the listening server accepts
NextStartup ==
  \/ \E ok \in BOOLEAN : ClientConnect(ok)
  \/ \E ok \in BOOLEAN : Ping(ok)
  \/ HttpGet
  \/ \E c \in Devices, token \in Tokens : Accept(c, token)
  \/ \E c \in Devices, a \in ActiveTaskIdArgs : RoomStateUpdateReceive(c, a)
  \/ \E call \in calls : RoomStateUpdate(call)
  \/ \E call \in calls : RoomStateUpdateQuery(call)
  \/ \E call \in calls : RoomStateUpdateInsert(call)

SpecStartup == InitStartup /\ [][NextStartup]_vars

\* roomState:update on the sockets of one user, with upserts that overlap
NextUpsert ==
  \/ \E c \in Devices : Connect(c)
  \/ \E c \in Devices, a \in ActiveTaskIdArgs : RoomStateUpdateReceive(c, a)
  \/ \E call \in calls : RoomStateUpdate(call)
  \/ \E call \in calls : RoomStateUpdateQuery(call)
  \/ \E call \in calls : RoomStateUpdateInsert(call)
  \/ \E c \in Devices : RoomStateReadReceive(c)
  \/ \E call \in calls : RoomStateRead(call)

SpecUpsert == Init /\ [][NextUpsert]_vars

\* the channels: sockets of two users present a token, come and go, and the
\* listener of workedTimeSpan:start emits tasks:change
NextChannel ==
  \/ \E c \in Conn, token \in Tokens : Handshake(c, token)
  \/ \E c \in Conn : Disconnect(c)
  \/ \E u \in Users : DeleteOne(u)
  \/ \E c \in Conn, id \in TaskIds, now \in Times :
       WorkedTimeSpanStartReceive(c, id, now)
  \/ \E call \in calls, index \in IndexArgs : WorkedTimeSpanStart(call, index)

SpecChannel == Init /\ [][NextChannel]_vars

\* every listener of the connection, on one socket that comes and goes
NextFrame ==
  \/ \E c \in Device : Connect(c)
  \/ \E c \in Device : Disconnect(c)
  \/ \E u \in Users : DeleteOne(u)
  \/ \E c \in Device, a \in ActiveTaskIdArgs : RoomStateUpdateReceive(c, a)
  \/ \E call \in calls : RoomStateUpdate(call)
  \/ \E call \in calls : RoomStateUpdateQuery(call)
  \/ \E call \in calls : RoomStateUpdateInsert(call)
  \/ \E c \in Device : RoomStateReadReceive(c)
  \/ \E call \in calls : RoomStateRead(call)
  \/ \E c \in Device :
       TasksCreateReceive(c, [name |-> "m", doer |-> "undefined", date |-> NoTime], 1)
  \/ \E call \in calls : TasksCreate(call)
  \/ \E c \in Device : TasksReadReceive(c)
  \/ \E call \in calls, endDate \in Times : TasksRead(call, 1, endDate)
  \/ \E c \in Device, id \in TaskIds : TasksDeleteReceive(c, id)
  \/ \E call \in calls, isTaskActive \in BOOLEAN : TasksDelete(call, isTaskActive, 0)
  \/ \E c \in Device, id \in TaskIds : TaskNameUpdateReceive(c, id, "m")
  \/ \E call \in calls : TaskNameUpdate(call, 0)
  \/ \E c \in Device, id \in TaskIds : WorkedTimeSpanStartReceive(c, id, 2)
  \/ \E call \in calls : WorkedTimeSpanStart(call, 0)
  \/ \E c \in Device, id \in TaskIds : WorkedTimeSpanEndReceive(c, id, 1)
  \/ \E call \in calls : WorkedTimeSpanEndFindRoomState(call)
  \/ \E call \in calls, wasDisconnected \in BOOLEAN :
       WorkedTimeSpanEndReturn(call, wasDisconnected, 0)
  \/ \E call \in calls, wasDisconnected \in BOOLEAN :
       WorkedTimeSpanEndFindTask(call, NoTime, wasDisconnected, 2)
  \/ \E call \in calls : WorkedTimeSpanEnd(call, 0)
  \/ \E c \in Device, id \in TaskIds : WorkedTimeSpanDeleteReceive(c, id, {1})
  \/ \E call \in calls : WorkedTimeSpanDelete(call, 0)
  \/ \E c \in Device : WorkedTimeSpanContinue(c, 1, 2)
  \/ \E c \in Device : TotalCompletedTimesReadReceive(c)
  \/ \E call \in calls : TotalCompletedTimesRead(call, 0, oneDayInMs, 1, "UTC")
  \/ \E c \in Device : ExistingDatesReadReceive(c)
  \/ \E call \in calls : ExistingDatesRead(call, "UTC")

SpecFrame == Init /\ [][NextFrame]_vars

\* the stored collections whose tasks each have one closed workedTimeSpan
ReadCollections ==
  {tks \in Collections :
     \A i \in DOMAIN tks :
       /\ Len(tks[i].workedTimeSpans) = 1
       /\ tks[i].workedTimeSpans[1].endTime > tks[i].workedTimeSpans[1].startTime}

\* the store that holds tasks of both users when the sockets connect
InitReads ==
  /\ sockets = [c \in Conn |-> "new"]
  /\ tasks \in ReadCollections
  /\ roomsStates = [r \in {} |-> EmptyString]
  /\ calls = {}
  /\ deletes = [u \in Users |-> 0]
  /\ nextId = 5
  /\ ncalls = 0
  /\ registered = <<>>
  /\ applied = NotRecording
  /\ written = [r \in {} |-> EmptyString]
  /\ wire = <<>>

\* a socket of u1 and a socket of u2
Readers == {"A", "C"}

\* the listeners that read, on sockets of two users that report their state
NextReads ==
  \/ \E c \in Readers : Connect(c)
  \/ \E c \in Readers : RoomStateUpdateReceive(c, 1)
  \/ \E call \in calls : RoomStateUpdate(call)
  \/ \E call \in calls : RoomStateUpdateQuery(call)
  \/ \E call \in calls : RoomStateUpdateInsert(call)
  \/ \E c \in Readers : RoomStateReadReceive(c)
  \/ \E call \in calls : RoomStateRead(call)
  \/ \E c \in Readers : TasksReadReceive(c)
  \/ \E call \in calls, startDate \in StartDates, endDate \in EndDates :
       TasksRead(call, startDate, endDate)
  \/ \E c \in Readers : TotalCompletedTimesReadReceive(c)
  \/ \E call \in calls, startDate \in StartDates, endDate \in EndDates,
        timeZone \in Zones :
       TotalCompletedTimesRead(call, startDate, endDate, 3, timeZone)
  \/ \E c \in Readers : ExistingDatesReadReceive(c)
  \/ \E call \in calls, timeZone \in Zones : ExistingDatesRead(call, timeZone)

SpecReads == InitReads /\ [][NextReads]_vars

\* tasks:create on the sockets of two users, with tasks that carry a doer and
\* a date of the client's choice
NextCreate ==
  \/ \E c \in Readers : Connect(c)
  \/ \E c \in Readers, newTask \in {t \in NewTasks : t.name = "n"} :
       TasksCreateReceive(c, newTask, 1)
  \/ \E call \in calls : TasksCreate(call)

SpecCreate == Init /\ [][NextCreate]_vars

\* The reconnection of a device.  Socket A of u1 is connected and its
\* roomState:update(1) has been answered, so that the room state of u1 names
\* task 1 as active, while device B of u1 is off line: Connect("A"),
\* RoomStateUpdateReceive("A", 1) and RoomStateUpdate lead from Init to this
\* state.  The events are counted from here.
InitReconnect ==
  /\ sockets = [c \in Conn |-> IF c = "A" THEN "live" ELSE "new"]
  /\ tasks = (1 :> [doer |-> "u1", name |-> "n", date |-> 1,
                    workedTimeSpans |-> <<[id |-> 1, startTime |-> 1, endTime |-> NoTime]>>])
  /\ roomsStates = ("u1" :> 1)
  /\ calls = {}
  /\ deletes = [u \in Users |-> 0]
  /\ nextId = 2
  /\ ncalls = 0
  /\ registered = <<>>
  /\ applied = NotRecording
  /\ written = ("u1" :> 1)
  /\ wire = <<>>

\* Device B reconnects and sends first the workedTimeSpan:end it has kept for
\* the workedTimeSpan in progress, and other ones after it, all with
\* wasDisconnected = true; the events of socket A, which has stayed
\* connected, carry wasDisconnected = false and arrive once the first event
\* of B has arrived and every listener has returned.  B can go off line
\* again at any moment.
NextReconnect ==
  \/ Connect("B")
  \/ Disconnect("B")
  \/ /\ ncalls = 0
     /\ WorkedTimeSpanEndReceive("B", 1, 1)
  \/ \E id \in TaskIds, wid \in NoSpan..(nextId - 1) :
       /\ ncalls >= 1
       /\ WorkedTimeSpanEndReceive("B", id, wid)
  \/ \E id \in TaskIds, wid \in NoSpan..(nextId - 1) :
       /\ ncalls >= 1
       /\ calls = {}
       /\ WorkedTimeSpanEndReceive("A", id, wid)
  \/ \E call \in calls : WorkedTimeSpanEndFindRoomState(call)
  \/ \E call \in calls, index \in IndexArgs :
       WorkedTimeSpanEndReturn(call, call.conn = "B", index)
  \/ \E call \in calls, endTime \in EndTimeArgs, now \in Times :
       WorkedTimeSpanEndFindTask(call, endTime, call.conn = "B", now)
  \/ \E call \in calls, index \in IndexArgs : WorkedTimeSpanEnd(call, index)

SpecReconnect == InitReconnect /\ [][NextReconnect]_vars

\* The store of the interval listeners: task 1 of u1 with two
\* workedTimeSpans in progress, which two workedTimeSpan:start leave, and
\* task 2 of u1 with one.
IntervalsStore ==
  (1 :> [doer |-> "u1", name |-> "n", date |-> 1,
         workedTimeSpans |-> <<[id |-> 1, startTime |-> 1, endTime |-> NoTime],
                               [id |-> 2, startTime |-> 1, endTime |-> NoTime]>>]) @@
  (2 :> [doer |-> "u1", name |-> "m", date |-> 1,
         workedTimeSpans |-> <<[id |-> 3, startTime |-> 1, endTime |-> NoTime]>>])

\* socket A of u1 is connected and has reported task 1 as active; the
\* listeners that return are recorded
InitIntervals ==
  /\ sockets = [c \in Conn |-> IF c \in Device THEN "live" ELSE "new"]
  /\ tasks = IntervalsStore
  /\ roomsStates = ("u1" :> 1)
  /\ calls = {}
  /\ deletes = [u \in Users |-> 0]
  /\ nextId = 4
  /\ ncalls = 0
  /\ registered = <<>>
  /\ written = ("u1" :> 1)
  /\ applied = [recording |-> TRUE, ops |-> <<>>]
  /\ wire = <<>>

\* the workedTimeSpans a listener names: the one workedTimeSpan:start pushes,
\* the one workedTimeSpan:end closes, those workedTimeSpan:delete pulls
Named(call) ==
  IF call.op = "workedTimeSpan:delete"
  THEN {<<call.id, wid>> : wid \in call.wids}
  ELSE {<<call.id, call.wid>>}
\* no listener that has not returned names one of these workedTimeSpans
Free(spans) == \A call \in calls : Named(call) \cap spans = {}

\* workedTimeSpan:start, workedTimeSpan:end and workedTimeSpan:delete on the
\* tasks of u1, in every interleaving in which the listeners that run at the
\* same time name different workedTimeSpans, of one task or of two; the task
\* is the first of its day in the list of the client (indexInTasksOfDays = 0)
NextIntervals ==
  \/ \E c \in Device, id \in TaskIds, now \in Times :
       /\ Free({<<id, nextId>>})
       /\ WorkedTimeSpanStartReceive(c, id, now)
  \/ \E call \in calls : WorkedTimeSpanStart(call, 0)
  \/ \E c \in Device, id \in TaskIds, wid \in 1..(nextId - 1) :
       /\ Free({<<id, wid>>})
       /\ WorkedTimeSpanEndReceive(c, id, wid)
  \/ \E call \in calls : WorkedTimeSpanEndFindRoomState(call)
  \/ \E call \in calls, wasDisconnected \in BOOLEAN :
       WorkedTimeSpanEndReturn(call, wasDisconnected, 0)
  \/ \E call \in calls, endTime \in EndTimeArgs, wasDisconnected \in BOOLEAN,
        now \in Times :
       WorkedTimeSpanEndFindTask(call, endTime, wasDisconnected, now)
  \/ \E call \in calls : WorkedTimeSpanEnd(call, 0)
  \/ \E c \in Device, id \in TaskIds, wids \in SUBSET (1..(nextId - 1)) :
       /\ wids # {}
       /\ Free({<<id, wid>> : wid \in wids})
       /\ WorkedTimeSpanDeleteReceive(c, id, wids)
  \/ \E call \in calls : WorkedTimeSpanDelete(call, 0)

SpecIntervals == InitIntervals /\ [][NextIntervals]_vars

(* ----------------------------- properties ---------------------------- *)
\* the workedTimeSpans of a tasks collection, as <<task id, workedTimeSpan id>>
Spans(tks) ==
  UNION {{<<id, tks[id].workedTimeSpans[i].id>> : i \in DOMAIN tks[id].workedTimeSpans} :
           id \in DOMAIN tks}
\* the endTime of a workedTimeSpan of a tasks collection
EndTimeOf(tks, id, wid) ==
  tks[id].workedTimeSpans[Min(Matching(tks[id], wid))].endTime
\* the workedTimeSpans in progress
Open(tks) == {x \in Spans(tks) : EndTimeOf(tks, x[1], x[2]) = NoTime}

\* the step is a step of this listener
Stepped(call) == call \in calls /\ call \notin calls'
\* the step is the last step of this listener: it awaits nothing any more
Returned(call) == Stepped(call) /\ \A next \in calls' : next.seq # call.seq
\* the listener after its step, with the arguments it has read: it awaits its
\* next storage call or has just sent its messages
After(call) ==
  {next \in calls' \cup {wire'[k].from : k \in DOMAIN wire'} : next.seq = call.seq}
\* what a listener has just sent
SentBy(call, w) == SelectSeq(w, LAMBDA m : m.from.seq = call.seq)
\* the listeners of workedTimeSpan:end
EndCalls == {call \in calls : call.op = "workedTimeSpan:end"}

\* C1: an endTime that is set is never modified afterwards, as long as the
\* workedTimeSpan exists, in any interleaving of the listeners
C1_EndTimeImmutable ==
  [][\A x \in Spans(tasks) \cap Spans(tasks') :
       EndTimeOf(tasks, x[1], x[2]) # NoTime
         => EndTimeOf(tasks', x[1], x[2]) = EndTimeOf(tasks, x[1], x[2])]_vars

\* C2: a workedTimeSpan:end with wasDisconnected = true that read a task id as
\* the activeTaskId of the room returns without a storage update and leaves
\* the tasks as they are; a workedTimeSpan:end with wasDisconnected = false
\* that finds its workedTimeSpan in progress goes on to the updateOne, and the
\* updateOne that still matches sets the endTime of that workedTimeSpan
C2_ReconnectionRace ==
  [][\A call \in EndCalls : Stepped(call) =>
       /\ call.pc = "findTask" =>
            \A next \in After(call) :
              /\ (next.wasDisconnected /\ Truthy(call.activeTaskId))
                   => /\ next \notin calls'
                      /\ tasks' = tasks
                      /\ wire'[1] = Ack(next, "Work done!")
              /\ (~next.wasDisconnected /\ <<call.id, call.wid>> \in Open(tasks))
                   => /\ next \in calls'
                      /\ next.pc = "updateOne"
       /\ call.pc = "findTask" => After(call) # {}
       /\ (call.pc = "updateOne" /\ <<call.id, call.wid>> \in Spans(tasks))
            => EndTimeOf(tasks', call.id, call.wid) # NoTime]_vars

\* C2 happens: device B has reconnected and its workedTimeSpan:end of the
\* workedTimeSpan of task 1, the first event, has returned without writing;
\* the workedTimeSpan:end of socket A that arrived after it, the second
\* event, has just set the endTime of that workedTimeSpan, and the room state
\* still names task 1 as active
C2_Witness ==
  /\ sockets["B"] = "live"
  /\ calls = {}
  /\ Len(wire) >= 1
  /\ wire[1].ev = "ack"
  /\ wire[1].to = "A"
  /\ wire[1].from.op = "workedTimeSpan:end"
  /\ wire[1].from.seq = 2
  /\ wire[1].from.pc = "updateOne"
  /\ ~wire[1].from.wasDisconnected
  /\ wire[1].from.id = 1 /\ wire[1].from.wid = 1
  /\ registered = <<[id |-> 1, wid |-> 1, sent |-> wire]>>
  /\ EndTimeOf(tasks, 1, 1) # NoTime
  /\ ReadActiveTaskId("u1") = 1

\* the activeTaskId values that a sequence of messages reports to the room
Reported(w) == {w[k].activeTaskId : k \in {j \in DOMAIN w : w[j].ev = "tasks:change"}}

\* C3: closing a workedTimeSpan is idempotent: however often workedTimeSpan:end
\* is called for it, its endTime is set once, and a call that finds it closed
\* reports the same activeTaskId as the call that closed it
C3_IdempotentClose ==
  /\ \A k, l \in DOMAIN registered :
       (registered[k].id = registered[l].id /\ registered[k].wid = registered[l].wid)
         => k = l
  /\ \A j \in DOMAIN wire, k \in DOMAIN registered :
       (/\ wire[j].ev = "tasks:change"
        /\ wire[j].from.op = "workedTimeSpan:end"
        /\ wire[j].from.pc = "findTask"
        /\ wire[j].from.id = registered[k].id
        /\ wire[j].from.wid = registered[k].wid
        /\ Reported(registered[k].sent) # {})
         => wire[j].activeTaskId \in Reported(registered[k].sent)

\* the listener of workedTimeSpan:end returns early in this step
ReturnsEarly(call) ==
  /\ call.op = "workedTimeSpan:end"
  /\ call.pc = "findTask"
  /\ Stepped(call)
  /\ \A next \in After(call) : next \notin calls'

\* C4 as stated: a workedTimeSpan:end that registers nothing leaves the tasks
\* and the room states unchanged, acknowledges with success, and reports the
\* activeTaskId the room state holds at that moment
C4_NoOpReportsCurrent ==
  [][\A call \in calls : ReturnsEarly(call) =>
       /\ tasks' = tasks
       /\ roomsStates' = roomsStates
       /\ wire'[1].ev = "ack" /\ wire'[1].to = call.conn
       /\ Reported(SentBy(call, wire'))
            = {OrEmptyString(IF username(call.conn) \in DOMAIN roomsStates
                             THEN roomsStates[username(call.conn)]
                             ELSE Undefined)}]_vars

\* C4 amended: a workedTimeSpan:end that registers nothing leaves the tasks
\* and the room states unchanged and acknowledges with success; the
\* activeTaskId it reports is the one its roomsStates.findOne returned (the
\* empty string when there was no room state), and it reports it, in
\* tasks:change, only when indexInTasksOfDays >= 0
C4_NoOpReportsRead ==
  [][\A call \in EndCalls : Stepped(call) =>
       /\ call.pc = "findRoomState" =>
            \A next \in After(call) :
              next.activeTaskId = IF username(call.conn) \in DOMAIN roomsStates
                                  THEN roomsStates[username(call.conn)]
                                  ELSE Undefined
       /\ ReturnsEarly(call) =>
            /\ tasks' = tasks
            /\ roomsStates' = roomsStates
            /\ wire'[1].ev = "ack" /\ wire'[1].to = call.conn
            /\ wire'[1].message = "Work done!"
            /\ \A next \in After(call) :
                 Reported(SentBy(call, wire'))
                   = IF next.indexInTasksOfDays >= 0
                     THEN {OrEmptyString(call.activeTaskId)}
                     ELSE {}]_vars

\* C4 happens: a workedTimeSpan:end that registered nothing has reported the
\* activeTaskId it read, and the room state has changed since it read it
C4_Witness ==
  /\ Len(wire) = 2
  /\ wire[2].ev = "tasks:change"
  /\ wire[2].from.op = "workedTimeSpan:end"
  /\ wire[2].from.pc = "findTask"
  /\ wire[2].activeTaskId # OrEmptyString(ReadActiveTaskId("u1"))

\* C5 as stated: a workedTimeSpan:end that registers nothing emits no
\* tasks:change, whatever its indexInTasksOfDays
C5_NoOpNeverBroadcasts ==
  [][\A call \in calls : ReturnsEarly(call) =>
       \A k \in DOMAIN wire' : wire'[k].ev # "tasks:change"]_vars

\* C5 amended: a workedTimeSpan:end that registers nothing emits tasks:change
\* to the room of the user, with its indexInTasksOfDays, exactly when that
\* index is >= 0; with a negative index only the acknowledgement is sent
C5_NoOpBroadcastsByIndex ==
  [][\A call \in calls : ReturnsEarly(call) =>
       \A next \in After(call) :
         IF next.indexInTasksOfDays >= 0
         THEN /\ Len(wire') = 2
              /\ wire'[2].ev = "tasks:change"
              /\ wire'[2].to = username(call.conn)
              /\ wire'[2].indexInTasksOfDays = next.indexInTasksOfDays
         ELSE /\ Len(wire') = 1
              /\ wire'[1].ev = "ack"]_vars

\* C5 happens: a workedTimeSpan:end with a negative index that registered
\* nothing has sent its acknowledgement and nothing else
C5_Witness ==
  /\ Len(wire) = 1
  /\ wire[1].ev = "ack"
  /\ wire[1].from.op = "workedTimeSpan:end"
  /\ wire[1].from.pc = "findTask"
  /\ wire[1].from.indexInTasksOfDays < 0

\* C6: when a workedTimeSpan:end emits tasks:change, the acknowledgement of
\* that call has been sent to the caller before
C6_AckBeforeBroadcast ==
  \A k \in DOMAIN wire :
    (wire[k].ev = "tasks:change" /\ wire[k].from.op = "workedTimeSpan:end")
      => \E j \in 1..(k - 1) :
           /\ wire[j].ev = "ack"
           /\ wire[j].from = wire[k].from
           /\ wire[j].to = wire[k].from.conn

\* C6 happens: a workedTimeSpan:end that set an endTime has emitted tasks:change
C6_Witness ==
  /\ registered # <<>>
  /\ \E k \in DOMAIN wire :
       /\ wire[k].ev = "tasks:change"
       /\ wire[k].from.op = "workedTimeSpan:end"
       /\ wire[k].from.pc = "updateOne"

\* the listeners of workedTimeSpan:start
StartCalls == {call \in calls : call.op = "workedTimeSpan:start"}

\* C9: workedTimeSpan:start on a stored task appends one workedTimeSpan in
\* progress, with a new id and the clock value read on arrival as startTime,
\* changes nothing else, calls the callback and then emits tasks:change with
\* the id of the task as activeTaskId
C9_StartAppends ==
  [][/\ \A call \in calls' \ calls : call.op = "workedTimeSpan:start" =>
          /\ call.startTime \in Times
          /\ \A x \in Spans(tasks) : x[2] # call.wid
          /\ \A other \in StartCalls : other.wid # call.wid
     /\ \A call \in StartCalls : (Stepped(call) /\ call.id \in DOMAIN tasks) =>
          /\ tasks' = [tasks EXCEPT ![call.id].workedTimeSpans =
                         Append(@, [id |-> call.wid, startTime |-> call.startTime,
                                    endTime |-> NoTime])]
          /\ roomsStates' = roomsStates
          /\ Len(wire') = 2
          /\ wire'[1].ev = "ack" /\ wire'[1].to = call.conn
          /\ wire'[1].message = "Happy working!"
          /\ wire'[2].ev = "tasks:change" /\ wire'[2].to = username(call.conn)
          /\ wire'[2].activeTaskId = call.id]_vars

\* C9 happens: a workedTimeSpan:start has been answered, and its task holds a
\* closed workedTimeSpan followed by the new one in progress
C9_Witness ==
  /\ Len(wire) = 2
  /\ wire[1].from.op = "workedTimeSpan:start"
  /\ Len(tasks[wire[1].from.id].workedTimeSpans) = 2
  /\ tasks[wire[1].from.id].workedTimeSpans[1].endTime # NoTime
  /\ tasks[wire[1].from.id].workedTimeSpans[2].id = wire[1].from.wid
  /\ tasks[wire[1].from.id].workedTimeSpans[2].endTime = NoTime

\* C10: the updateOne of a workedTimeSpan:end that went past the early return
\* sets, in one step, the endTime of the workedTimeSpan it matches to the
\* endTime of the payload, or to the clock value read when there is none, and
\* changes nothing else; a workedTimeSpan in progress gets an endTime in no
\* other step
C10_EndSetsEndTime ==
  [][/\ \A call \in EndCalls : Stepped(call) =>
          /\ call.pc = "findTask" =>
               \A next \in After(call) \cap calls' :
                 /\ next.pc = "updateOne"
                 /\ next.endTime = NoTime => next.now \in Times
          /\ (call.pc = "updateOne" /\ <<call.id, call.wid>> \in Spans(tasks)) =>
               /\ tasks' = [tasks EXCEPT
                               ![call.id].workedTimeSpans[Min(Matching(tasks[call.id],
                                                                       call.wid))].endTime =
                                 IF call.endTime # NoTime THEN call.endTime ELSE call.now]
               /\ roomsStates' = roomsStates
     /\ (\E x \in Open(tasks) \cap Spans(tasks') : x \notin Open(tasks'))
          => \E call \in EndCalls : call.pc = "updateOne" /\ Stepped(call)]_vars

\* C10 happens: a workedTimeSpan:end without endTime in its payload has set
\* the endTime of its workedTimeSpan to the clock value it read
C10_Witness ==
  /\ wire # <<>>
  /\ wire[1].from.op = "workedTimeSpan:end"
  /\ wire[1].from.pc = "updateOne"
  /\ wire[1].from.endTime = NoTime
  /\ wire[1].from.now \in Times
  /\ EndTimeOf(tasks, wire[1].from.id, wire[1].from.wid) = wire[1].from.now

\* no socket of the user has connected yet
NeverConnected(u) == \A c \in Conn : username(c) = u => sockets[c] = "new"
\* a room state of the user is removed in this step
Removed(u) == Cardinality(Documents(u)') < Cardinality(Documents(u))
\* the listeners of roomState:update and roomState:read of a user
UpdateCalls(u) ==
  {call \in calls : call.op = "roomState:update" /\ username(call.conn) = u}
ReadCalls(u) ==
  {call \in calls : call.op = "roomState:read" /\ username(call.conn) = u}

\* C7 as stated: the room state of a user is absent before the first
\* connection of the user, present once a roomState:update of the user has
\* completed, and removed when the number of live connections of the user
\* goes from 1 to 0 and at no other moment: no room state is removed while
\* the user has a live connection
C7_RegistryLifecycle ==
  [][\A u \in Users :
       /\ NeverConnected(u) => u \notin DOMAIN roomsStates
       /\ \A call \in UpdateCalls(u) : Returned(call) => u \in DOMAIN roomsStates'
       /\ (Cardinality(room(u)) = 1 /\ Cardinality(room(u)') = 0)
            => deletes'[u] = deletes[u] + 1
       /\ Removed(u) => room(u) = {}]_vars

\* C7 amended: the room state of a user is absent before the first
\* connection of the user and present once a roomState:update of the user
\* has completed; a close sends one deleteOne for it exactly when it takes
\* the number of live connections of the user from 1 to 0, and the room
\* state is removed only when such a deleteOne takes effect, which can be
\* after a new connection of the user has arrived
C7_RegistryLifecycleByDelete ==
  [][\A u \in Users :
       /\ NeverConnected(u) => u \notin DOMAIN roomsStates
       /\ \A call \in UpdateCalls(u) : Returned(call) => u \in DOMAIN roomsStates'
       /\ (Cardinality(room(u)) = 1 /\ Cardinality(room(u)') = 0)
            <=> deletes'[u] = deletes[u] + 1
       /\ deletes'[u] <= deletes[u] + 1
       /\ Removed(u) => (deletes[u] > 0 /\ deletes'[u] = deletes[u] - 1)]_vars

\* C7 happens: the room state a user wrote has been removed by the deleteOne
\* of a close, and the user has a live connection again
C7_Witness ==
  /\ "u1" \in DOMAIN written
  /\ "u1" \notin DOMAIN roomsStates
  /\ room("u1") # {}
  /\ deletes["u1"] = 0
  /\ calls = {}

\* C8: roomState:update creates the room state of the caller when the
\* caller has none and overwrites its activeTaskId otherwise, stores "" for a
\* missing or empty argument and calls the callback; a roomState:read after
\* it, with no roomState:update in between, returns the activeTaskId written
\* last to its connected caller
C8_UpsertThenRead ==
  [][\A u \in Users :
       /\ \A call \in UpdateCalls(u) : Returned(call) =>
            /\ roomsStates' =
                 [r \in DOMAIN roomsStates \cup {u} |->
                    IF r # u THEN roomsStates[r]
                    ELSE IF call.activeTaskId \in TaskIds THEN call.activeTaskId
                    ELSE EmptyString]
            /\ wire' = <<Ack(call, "Room states updated!")>>
       /\ \A call \in ReadCalls(u) :
            (Stepped(call) /\ u \in DOMAIN written /\ sockets[call.conn] = "live") =>
            /\ Len(wire') = 1
            /\ wire'[1].ev = "roomState" /\ wire'[1].to = call.conn
            /\ wire'[1].activeTaskId = written[u]]_vars

\* the listeners of workedTimeSpan:delete
DeleteCalls == {call \in calls : call.op = "workedTimeSpan:delete"}
\* the workedTimeSpans of seq whose id is not in ids, in their order
RECURSIVE Kept(_, _)
Kept(seq, ids) ==
  IF seq = <<>> THEN <<>>
  ELSE IF Head(seq).id \in ids THEN Kept(Tail(seq), ids)
       ELSE <<Head(seq)>> \o Kept(Tail(seq), ids)

\* C11: the updateOne of workedTimeSpan:delete removes from the task the
\* workedTimeSpans whose id is among the ids sent and no other, keeps the
\* rest in their order, changes no other field and no other task, and the
\* listener emits tasks:change exactly when a workedTimeSpan was removed
C11_DeleteRemovesExactly ==
  [][\A call \in DeleteCalls : Stepped(call) =>
       /\ tasks' = IF call.id \in DOMAIN tasks
                   THEN [tasks EXCEPT ![call.id].workedTimeSpans = Kept(@, call.wids)]
                   ELSE tasks
       /\ roomsStates' = roomsStates
       /\ IF call.id \in DOMAIN tasks
             /\ \E i \in DOMAIN tasks[call.id].workedTimeSpans :
                  tasks[call.id].workedTimeSpans[i].id \in call.wids
          THEN /\ Len(wire') = 1
               /\ wire'[1].ev = "tasks:change"
               /\ wire'[1].to = username(call.conn)
          ELSE wire' = <<>>]_vars

\* C11 happens: a workedTimeSpan:delete that sent two ids has removed one
\* workedTimeSpan of a task, has kept the one whose id it did not send, and
\* has emitted tasks:change
C11_Witness ==
  /\ Len(wire) = 1
  /\ wire[1].ev = "tasks:change"
  /\ wire[1].from.op = "workedTimeSpan:delete"
  /\ Cardinality(wire[1].from.wids) >= 2
  /\ wire[1].from.id \in DOMAIN tasks
  /\ Len(tasks[wire[1].from.id].workedTimeSpans) = 1
  /\ tasks[wire[1].from.id].workedTimeSpans[1].id \notin wire[1].from.wids

\* C12: workedTimeSpan:continue sends one message, to the socket that sent
\* the event and to no room, with the startTime received and the clock value,
\* and changes neither the tasks nor the roomsStates collection
C12_ContinueEchoes ==
  [][\A c \in Conn, startTime \in EndTimeArgs, now \in Times :
       WorkedTimeSpanContinue(c, startTime, now) =>
         /\ Len(wire') = 1
         /\ wire'[1].ev = "workedTimeSpan:continue"
         /\ wire'[1].to = c
         /\ wire'[1].to \notin Users
         /\ wire'[1].startTime = startTime
         /\ wire'[1].endTime = now
         /\ UNCHANGED <<tasks, roomsStates, deletes, calls, sockets>>]_vars

\* C12 happens: a socket has got the reply of workedTimeSpan:continue while
\* another socket of the same user is connected and a room state is stored
C12_Witness ==
  /\ Len(wire) = 1
  /\ wire[1].ev = "workedTimeSpan:continue"
  /\ wire[1].to = "A"
  /\ sockets["B"] = "live"
  /\ "u1" \in DOMAIN roomsStates

\* C14: a socket whose token is missing or refused by jwt.verify is rejected
\* without a change of the stores; a rejected socket stays rejected, is in no
\* room, has no listener running and is sent nothing
C14_InvalidTokenRejected ==
  [][/\ \A c \in Conn, token \in Tokens \ {<<"Bearer", "signed">>} :
          Handshake(c, token) =>
            /\ sockets'[c] = "rejected"
            /\ UNCHANGED <<tasks, roomsStates, deletes, calls, ncalls>>
     /\ \A c \in Conn : sockets[c] = "rejected" =>
          /\ sockets'[c] = "rejected"
          /\ \A u \in Users : c \notin room(u)'
          /\ \A call \in calls' : call.conn # c
          /\ \A i \in DOMAIN wire' : wire'[i].to # c /\ wire'[i].from.conn # c]_vars

\* C14 happens: a socket was rejected while another socket of the same user
\* is connected and has stored a room state
C14_Witness ==
  /\ sockets["A"] = "rejected"
  /\ sockets["B"] = "live"
  /\ "u1" \in DOMAIN roomsStates

\* the tasks:change messages of a sequence of messages
Changes(w) == SelectSeq(w, LAMBDA m : m.ev = "tasks:change")

\* C13 as stated: a step of a listener that changes the tasks collection
\* emits one tasks:change to the room of the user of its socket, whatever
\* indexInTasksOfDays the client sent
C13_ChangeAlwaysBroadcast ==
  [][\A call \in calls : (Stepped(call) /\ tasks' # tasks) =>
       /\ Len(Changes(wire')) = 1
       /\ Changes(wire')[1].to = username(call.conn)]_vars

\* C13 amended: a step of a listener that changes the tasks collection emits
\* one tasks:change to the room of the user of its socket, with the
\* indexInTasksOfDays the client sent, except workedTimeSpan:end with a
\* negative indexInTasksOfDays, which sends its acknowledgement only
C13_ChangeBroadcastUnlessNegativeEnd ==
  [][\A call \in calls : (Stepped(call) /\ tasks' # tasks) =>
       \A next \in After(call) :
         IF call.op = "workedTimeSpan:end" /\ next.indexInTasksOfDays < 0
         THEN /\ Changes(wire') = <<>>
              /\ Len(wire') = 1
              /\ wire'[1].ev = "ack"
         ELSE /\ Len(Changes(wire')) = 1
              /\ Changes(wire')[1].to = username(call.conn)
              /\ Changes(wire')[1].to \notin Conn
              /\ Changes(wire')[1].indexInTasksOfDays = next.indexInTasksOfDays]_vars

\* C13 happens: a workedTimeSpan:end with a negative indexInTasksOfDays has
\* set an endTime and has sent its acknowledgement and no tasks:change
C13_Witness ==
  /\ Len(wire) = 1
  /\ wire[1].ev = "ack"
  /\ wire[1].from.op = "workedTimeSpan:end"
  /\ wire[1].from.pc = "updateOne"
  /\ wire[1].from.indexInTasksOfDays < 0
  /\ registered # <<>>
  /\ EndTimeOf(tasks, wire[1].from.id, wire[1].from.wid) # NoTime

\* C15: a step of a listener on the socket of a user leaves every task of
\* another doer in the collection and unchanged
C15_OwnedByDoer ==
  [][\A call \in calls : Stepped(call) =>
       \A id \in DOMAIN tasks : tasks[id].doer # username(call.conn) =>
         /\ id \in DOMAIN tasks'
         /\ tasks'[id] = tasks[id]]_vars

\* the answers of totalCompletedTimes:read among the messages just sent
Answers ==
  {wire[k] : k \in {j \in DOMAIN wire : wire[j].from.op = "totalCompletedTimes:read"}}
\* the array of buckets in an answer
Buckets(m) == m.message[1].allDatesCompletedTimes
\* the tasks of the user in the range of an answer's request
InRange(m) ==
  {id \in DOMAIN tasks : /\ tasks[id].doer = username(m.from.conn)
                         /\ m.from.startDate <= tasks[id].date
                         /\ tasks[id].date <= m.from.endDate}
\* the local date of a task in the timeZone of an answer's request
LocalDateOf(m, id) == dateToString(tasks[id].date, m.from.timeZone)
\* the local date of day k, counted from the local date of startDate
DayOf(m, k) == dateToString(m.from.startDate, m.from.timeZone) + (k - 1)
\* the sum of a function over a set
RECURSIVE SumOver(_, _)
SumOver(f, S) ==
  IF S = {} THEN 0
  ELSE LET x == CHOOSE y \in S : TRUE IN f[x] + SumOver(f, S \ {x})
\* endTime - startTime summed over the closed workedTimeSpans of a task
Duration(id) ==
  SumOver([i \in DOMAIN tasks[id].workedTimeSpans |->
             IF tasks[id].workedTimeSpans[i].endTime = NoTime
             THEN 0
             ELSE tasks[id].workedTimeSpans[i].endTime
                  - tasks[id].workedTimeSpans[i].startTime],
          DOMAIN tasks[id].workedTimeSpans)
\* max(0, endTime - startTime) summed over the workedTimeSpans of a task
ClampedDuration(id) ==
  SumOver([i \in DOMAIN tasks[id].workedTimeSpans |->
             IF \/ tasks[id].workedTimeSpans[i].endTime = NoTime
                \/ tasks[id].workedTimeSpans[i].endTime
                     < tasks[id].workedTimeSpans[i].startTime
             THEN 0
             ELSE tasks[id].workedTimeSpans[i].endTime
                  - tasks[id].workedTimeSpans[i].startTime],
          DOMAIN tasks[id].workedTimeSpans)

\* C16: the answer of totalCompletedTimes:read has numberOfDaysCompletedTimes
\* buckets, and bucket k carries the local date of day k counted from the
\* local date of startDate: the dates are distinct and consecutive
C16_ConsecutiveLocalDates ==
  \A m \in Answers :
    /\ Len(Buckets(m)) = m.from.numberOfDaysCompletedTimes
    /\ \A k \in DOMAIN Buckets(m) : Buckets(m)[k].localDate = DayOf(m, k)

\* C17: bucket k of the answer carries the local date of startDate + k days
\* of 24 hours, in the order of the initial list, and as completedTime the
\* sum of the completedTimes of the tasks of the user in the range that were
\* created on that local date, which is 0 when there is none
C17_ZeroFillMerge ==
  \A m \in Answers :
    /\ Len(Buckets(m)) = m.from.numberOfDaysCompletedTimes
    /\ \A k \in DOMAIN Buckets(m) :
         LET localDate == dateToString(m.from.startDate + (k - 1) * oneDayInMs,
                                       m.from.timeZone)
         IN /\ Buckets(m)[k].localDate = localDate
            /\ Buckets(m)[k].completedTime =
                 SumOver([id \in DOMAIN tasks |-> Duration(id)],
                         {id \in InRange(m) : LocalDateOf(m, id) = localDate})

\* C17 happens: five buckets were asked for, the user has worked on a task
\* created on the third day only, and the answer carries the time worked in
\* its third bucket and 0 in the four others
C17_Witness ==
  \E m \in Answers :
    /\ m.from.numberOfDaysCompletedTimes = 5
    /\ \E id \in InRange(m) : LocalDateOf(m, id) = Buckets(m)[3].localDate
    /\ Buckets(m)[3].completedTime > 0
    /\ \A k \in {1, 2, 4, 5} : Buckets(m)[k].completedTime = 0

\* C18: the completedTimes of the answer add up to the sum of endTime -
\* startTime over the closed workedTimeSpans of the tasks of the user that
\* were created in the range
C18_Conservation ==
  \A m \in Answers :
    SumOver([k \in DOMAIN Buckets(m) |-> Buckets(m)[k].completedTime],
            DOMAIN Buckets(m))
      = SumOver([id \in DOMAIN tasks |-> Duration(id)], InRange(m))

\* C19: a workedTimeSpan adds max(0, endTime - startTime) to the completedTime
\* of its task's bucket, so that no completedTime of an answer is negative
C19_NoNegativeCompletedTime ==
  \A m \in Answers : \A k \in DOMAIN Buckets(m) :
    /\ Buckets(m)[k].completedTime >= 0
    /\ Buckets(m)[k].completedTime =
         SumOver([id \in DOMAIN tasks |-> ClampedDuration(id)],
                 {id \in InRange(m) : LocalDateOf(m, id) = Buckets(m)[k].localDate})

\* C20: when the one task of the user was created at T0 and its one
\* workedTimeSpan started at T1 and ended at T2, the answer for three buckets
\* over [T0 - 1 day, T0 + 1 day] carries T2 - T1 in the bucket of the local
\* date of T0, which is the second, and 0 in the two others
C20_EndToEnd ==
  \A m \in Answers :
    (/\ DOMAIN tasks = {1}
     /\ tasks[1].doer = username(m.from.conn)
     /\ Len(tasks[1].workedTimeSpans) = 1
     /\ tasks[1].workedTimeSpans[1].endTime # NoTime
     /\ m.from.startDate = tasks[1].date - oneDayInMs
     /\ m.from.endDate = tasks[1].date + oneDayInMs
     /\ m.from.numberOfDaysCompletedTimes = 3)
    => /\ Len(Buckets(m)) = 3
       /\ Buckets(m)[2].localDate = LocalDateOf(m, 1)
       /\ Buckets(m)[2].completedTime =
            tasks[1].workedTimeSpans[1].endTime - tasks[1].workedTimeSpans[1].startTime
       /\ Buckets(m)[1].completedTime = 0
       /\ Buckets(m)[3].completedTime = 0

\* the answers of existingDates:read among the messages just sent
DatesAnswers ==
  {wire[k] : k \in {j \in DOMAIN wire : wire[j].from.op = "existingDates:read"}}
\* the local dates of an answer, in their order
LocalDatesOf(m) == IF m.message = <<>> THEN <<>> ELSE m.message[1].localDates

\* C21: the answer of existingDates:read holds the local date of every task
\* of the caller, each once, in descending order, and no other date
C21_ExistingDates ==
  \A m \in DatesAnswers :
    LET dates == LocalDatesOf(m)
        expected == {dateToString(tasks[id].date, m.from.timeZone) :
                       id \in {x \in DOMAIN tasks : tasks[x].doer = username(m.from.conn)}}
    IN /\ {dates[k] : k \in DOMAIN dates} = expected
       /\ \A i, j \in DOMAIN dates : i < j => dates[i] > dates[j]

\* C21 happens: the caller has two tasks created on different local dates,
\* the older one stored last, and the answer holds two dates
C21_Witness ==
  \E m \in DatesAnswers :
    /\ Len(LocalDatesOf(m)) = 2
    /\ DOMAIN tasks = {1, 2}
    /\ tasks[1].date > tasks[2].date

\* C22 as stated: the findOne of roomState:read is followed by one message to
\* the caller, whether a room state of the user is stored or not
C22_ReadAlwaysAnswers ==
  [][\A u \in Users : \A call \in ReadCalls(u) : Stepped(call) =>
       /\ Len(wire') = 1
       /\ wire'[1].to = call.conn]_vars

\* C22 amended: the findOne of roomState:read is followed by one message to
\* the caller, with the activeTaskId stored at that moment, when a room state
\* of the user is stored, and by no message at all when none is stored
C22_ReadAnswersIfStored ==
  [][\A u \in Users : \A call \in ReadCalls(u) : Stepped(call) =>
       IF u \in DOMAIN roomsStates
       THEN /\ Len(wire') = 1
            /\ wire'[1].ev = "roomState"
            /\ wire'[1].to = call.conn
            /\ wire'[1].activeTaskId = roomsStates[u]
            /\ roomsStates' = roomsStates
       ELSE /\ wire' = <<>>
            /\ roomsStates' = roomsStates
            /\ call \notin calls']_vars

\* C22 happens: a roomState:read of u2 was answered with the task id that u2
\* stored, while u1 is connected and has no room state
C22_Witness ==
  /\ Len(wire) = 1
  /\ wire[1].ev = "roomState"
  /\ wire[1].to = "C"
  /\ wire[1].activeTaskId \in TaskIds
  /\ room("u1") # {}
  /\ "u1" \notin DOMAIN roomsStates

\* C23: a listener of workedTimeSpan:end does not return without having
\* called its callback once, whatever the other listeners did between its
\* awaits
C23_EndAlwaysAcknowledged ==
  [][\A call \in EndCalls :
       (Stepped(call) /\ \A next \in After(call) : next \notin calls') =>
         Len(SelectSeq(wire', LAMBDA m : m.ev = "ack" /\ m.from.seq = call.seq)) = 1]_vars

\* C24: when the storage call a listener awaits fails, the callback of the
\* listener is called, with a failure, and the collections are left as they
\* were
C24_FailureAcknowledged ==
  [][\A call \in calls, exits \in BOOLEAN : StorageFails(call, exits) =>
       /\ \E k \in DOMAIN wire' :
            /\ wire'[k].ev = "ack"
            /\ wire'[k].to = call.conn
            /\ wire'[k].from.seq = call.seq
       /\ tasks' = tasks
       /\ roomsStates' = roomsStates]_vars

\* C25: once client.connect() or the ping has failed, no socket connects and
\* no HTTP request is answered
C25_NoServiceAfterFailedStartup ==
  [][Run("failed") \in calls =>
       /\ \A c \in Conn : sockets'[c] \in {"open", "live"} => sockets'[c] = sockets[c]
       /\ \A k \in DOMAIN wire' : wire'[k].ev # "http"]_vars

\* C26: a workedTimeSpan:end with wasDisconnected = true that read a
\* non-empty activeTaskId from the room state, the id of the task it ends or
\* of any other task, returns and writes nothing; one that read no room state
\* or the empty string and finds its workedTimeSpan in progress goes on to
\* the updateOne, which sets the endTime
C26_GuardOnAnyActiveTask ==
  [][\A call \in EndCalls : Stepped(call) =>
       /\ call.pc = "findTask" =>
            \A next \in After(call) : next.wasDisconnected =>
              IF call.activeTaskId \in TaskIds
              THEN /\ next \notin calls'
                   /\ tasks' = tasks
                   /\ registered' = registered
              ELSE <<call.id, call.wid>> \in Open(tasks)
                     => /\ next \in calls'
                        /\ next.pc = "updateOne"
       /\ (call.pc = "updateOne" /\ call.wasDisconnected
             /\ <<call.id, call.wid>> \in Open(tasks))
            => /\ EndTimeOf(tasks', call.id, call.wid) # NoTime
               /\ Len(registered') = Len(registered) + 1]_vars

\* C26 happens: a workedTimeSpan:end with wasDisconnected = true for a
\* workedTimeSpan in progress was held back because the room state names
\* another task as active
C26_Witness ==
  /\ wire # <<>>
  /\ wire[1].ev = "ack"
  /\ wire[1].from.op = "workedTimeSpan:end"
  /\ wire[1].from.wasDisconnected
  /\ wire[1].from.activeTaskId \in TaskIds
  /\ wire[1].from.activeTaskId # wire[1].from.id
  /\ <<wire[1].from.id, wire[1].from.wid>> \in Open(tasks)

\* C27: the updateOne of a workedTimeSpan:end with wasDisconnected = true
\* does not set an endTime while the room state of the user holds a
\* non-empty activeTaskId
C27_GuardAtomic ==
  [][\A call \in EndCalls :
       (Stepped(call) /\ call.pc = "updateOne" /\ call.wasDisconnected /\ tasks' # tasks)
         => ~Truthy(ReadActiveTaskId(username(call.conn)))]_vars

\* C28: the roomsStates collection holds at most one document for a room
C28_OneRoomStatePerUser ==
  \A u \in Users : Cardinality(Documents(u)) <= 1

\* C29: the close of a socket sends no deleteOne while another socket of the
\* user is live, and one deleteOne when no socket of the user is left; a
\* room state is removed by the deleteOne of a close of its own user only,
\* and a close or a deleteOne of one user leaves the room states of the
\* others as they are
C29_ReconcilerCountsRoom ==
  [][\A c \in Conn :
       LET u == username(c)
       IN /\ Disconnect(c) =>
               /\ roomsStates' = roomsStates
               /\ deletes' = IF room(u) \ {c} = {}
                             THEN [deletes EXCEPT ![u] = @ + 1]
                             ELSE deletes
          /\ DeleteOne(u) =>
               /\ deletes[u] > 0
               /\ \A r \in Users \ {u} :
                    /\ (r \in DOMAIN roomsStates) = (r \in DOMAIN roomsStates')
                    /\ r \in DOMAIN roomsStates => roomsStates'[r] = roomsStates[r]
          /\ Removed(u) => deletes'[u] = deletes[u] - 1]_vars

\* C29 happens: a socket of u1 has closed while another socket of u1 is live,
\* no deleteOne is on its way, and the room states of u1 and of u2 are stored
C29_Witness ==
  /\ sockets["A"] = "closed"
  /\ sockets["B"] = "live"
  /\ deletes = [u \in Users |-> 0]
  /\ "u1" \in DOMAIN roomsStates
  /\ "u2" \in DOMAIN roomsStates

\* C30: when no socket of a user is live and neither a listener of the user
\* nor a deleteOne for the room of the user is on its way, no room state of
\* the user is stored
C30_NoRoomStateWithoutSocket ==
  \A u \in Users :
    (/\ room(u) = {}
     /\ \A call \in calls : username(call.conn) # u
     /\ deletes[u] = 0)
      => u \notin DOMAIN roomsStates

\* the events whose listeners write to the tasks collection and emit
\* tasks:change
MutatingActions ==
  {"tasks:create", "tasks:delete", "taskName:update", "workedTimeSpan:start",
   "workedTimeSpan:end"}

\* C31: when the listener of tasks:create, tasks:delete, taskName:update,
\* workedTimeSpan:start or workedTimeSpan:end emits tasks:change after its
\* write, it has called the callback of its caller before
C31_AckBeforeChange ==
  \A k \in DOMAIN wire :
    (wire[k].ev = "tasks:change" /\ wire[k].from.op \in MutatingActions)
      => \E j \in 1..(k - 1) :
           /\ wire[j].ev = "ack"
           /\ wire[j].from.seq = wire[k].from.seq
           /\ wire[j].to = wire[k].from.conn

\* C32: a listener of taskName:update, tasks:delete or workedTimeSpan:start
\* does not return without having called its callback, also when no task has
\* the _id it was sent and when the name it was sent is the name the task has
C32_WriteAlwaysAcknowledged ==
  [][\A call \in calls :
       (/\ call.op \in {"taskName:update", "tasks:delete", "workedTimeSpan:start"}
        /\ Stepped(call)
        /\ \A next \in After(call) : next \notin calls')
         => \E k \in DOMAIN wire' :
              /\ wire'[k].ev = "ack"
              /\ wire'[k].from.seq = call.seq
              /\ wire'[k].to = call.conn]_vars

\* C33: the listener of an event of a socket starts when the listeners of the
\* earlier events of that socket have returned: at most one listener of a
\* socket is between two of its storage calls at any time
C33_OneListenerPerSocket ==
  \A call1, call2 \in calls : call1.conn = call2.conn => call1 = call2

\* the tasks collection after one listener of a workedTimeSpan event has run
\* from its arrival to its return with no other listener in between.  op is
\* the listener with the arguments it was sent and the values it read: the
\* ObjectId and the startTime of workedTimeSpan:start, the activeTaskId of
\* the room, wasDisconnected and the endTime or the clock of
\* workedTimeSpan:end, the ids of workedTimeSpan:delete
Alone(tks, op) ==
  IF op.id \notin DOMAIN tks
  THEN tks
  ELSE LET spans == tks[op.id].workedTimeSpans
           named == {i \in DOMAIN spans : spans[i].id = op.wid}
       IN CASE op.op = "workedTimeSpan:start" ->
                 [tks EXCEPT ![op.id].workedTimeSpans =
                    spans \o <<[id |-> op.wid, startTime |-> op.startTime,
                                endTime |-> NoTime]>>]
            [] op.op = "workedTimeSpan:delete" ->
                 [tks EXCEPT ![op.id].workedTimeSpans =
                    SelectSeq(spans, LAMBDA w : w.id \notin op.wids)]
            [] OTHER ->
                 IF \/ named = {}
                    \/ \E i \in named : spans[i].endTime # NoTime
                    \/ (op.wasDisconnected /\ op.activeTaskId \in TaskIds)
                 THEN tks
                 ELSE [tks EXCEPT ![op.id].workedTimeSpans =
                         [i \in DOMAIN spans |->
                            IF i \in named
                            THEN [id |-> spans[i].id, startTime |-> spans[i].startTime,
                                  endTime |-> IF op.endTime # NoTime THEN op.endTime
                                              ELSE op.now]
                            ELSE spans[i]]]
\* the tasks collection after the listeners of a sequence have run one after
\* the other, each from its arrival to its return
RECURSIVE OneAfterTheOther(_, _)
OneAfterTheOther(tks, ops) ==
  IF ops = <<>> THEN tks
  ELSE OneAfterTheOther(Alone(tks, Head(ops)), Tail(ops))

\* C34: when the workedTimeSpan:start, workedTimeSpan:end and
\* workedTimeSpan:delete listeners that run at the same time name different
\* workedTimeSpans, of one task or of different tasks, the tasks collection
\* is at every moment, and so when all have returned, the collection that
\* the listeners returned so far leave when they run one after the other in
\* the order of their last storage call; every event received is in that
\* order once, or has not returned yet; and a workedTimeSpan has an endTime
\* only if a workedTimeSpan:end that names it has set it
C34_SerialEquivalence ==
  /\ tasks = OneAfterTheOther(IntervalsStore, applied.ops)
  /\ Len(applied.ops) + Cardinality(calls) = ncalls
  /\ {applied.ops[k].seq : k \in DOMAIN applied.ops} \cup {call.seq : call \in calls}
       = 1..ncalls
  /\ \A x \in Spans(tasks) :
       EndTimeOf(tasks, x[1], x[2]) # NoTime =>
         \E k \in DOMAIN applied.ops :
           /\ applied.ops[k].op = "workedTimeSpan:end"
           /\ <<applied.ops[k].id, applied.ops[k].wid>> = x
           /\ EndTimeOf(tasks, x[1], x[2]) =
                EndTimeValue(applied.ops[k].endTime, applied.ops[k].now)

\* C34 happens: a workedTimeSpan:end of the first workedTimeSpan of task 1
\* arrived, a workedTimeSpan:end of the second one arrived while the first
\* listener was between its awaits and set its endTime first, each has set
\* the endTime it was sent on the workedTimeSpan it names, and the
\* workedTimeSpan of task 2 is as it was
C34_Witness ==
  /\ calls = {}
  /\ Len(applied.ops) = 2
  /\ applied.ops[1].seq = 2 /\ applied.ops[2].seq = 1
  /\ applied.ops[1].op = "workedTimeSpan:end" /\ applied.ops[2].op = "workedTimeSpan:end"
  /\ <<applied.ops[1].id, applied.ops[1].wid>> = <<1, 2>>
  /\ <<applied.ops[2].id, applied.ops[2].wid>> = <<1, 1>>
  /\ applied.ops[1].endTime = 2 /\ applied.ops[2].endTime = 1
  /\ EndTimeOf(tasks, 1, 2) = 2
  /\ EndTimeOf(tasks, 1, 1) = 1
  /\ tasks[2] = IntervalsStore[2]

\* the connected sockets of a user
LiveOf(u) == {c \in Conn : sockets[c] = "live" /\ username(c) = u}

\* C35: a socket is in the room of its username, and in no other room, from
\* its connection to its close, and a socket that was refused is in no room;
\* tasks:change emitted by a listener on a socket of a user is delivered to
\* the sockets of that user that are connected at that moment, and to no
\* socket of another user
C35_ChannelOfUser ==
  /\ \A c \in Conn, u \in Users :
       c \in room(u) <=> (sockets[c] = "live" /\ u = username(c))
  /\ \A k \in DOMAIN wire : wire[k].ev = "tasks:change" =>
       Recipients(wire[k]) = LiveOf(username(wire[k].from.conn))

\* C35 happens: tasks:change of a workedTimeSpan:start of socket A is
\* delivered to A and to B, the other socket of u1, while C, a socket of u2,
\* is connected and gets nothing
C35_Witness ==
  \E k \in DOMAIN wire :
    /\ wire[k].ev = "tasks:change"
    /\ wire[k].from.op = "workedTimeSpan:start"
    /\ wire[k].from.conn = "A"
    /\ Recipients(wire[k]) = {"A", "B"}
    /\ sockets["C"] = "live"

\* C36: when the updateOne of a workedTimeSpan:end has set an endTime, the
\* room state of the user no longer holds the id of that task as
\* activeTaskId, so that roomState:read does not report it as active
C36_EndClearsActiveTaskId ==
  [][\A call \in EndCalls :
       (Stepped(call) /\ call.pc = "updateOne" /\ tasks' # tasks) =>
         (username(call.conn) \in DOMAIN roomsStates'
            => roomsStates'[username(call.conn)] # call.id)]_vars

\* the closed workedTimeSpans of a task in the range of an answer that start
\* or end on a later local date than the date of creation of the task
LaterSpans(m, id) ==
  {i \in DOMAIN tasks[id].workedTimeSpans :
     /\ tasks[id].workedTimeSpans[i].endTime # NoTime
     /\ \/ dateToString(tasks[id].workedTimeSpans[i].startTime, m.from.timeZone)
             > LocalDateOf(m, id)
        \/ dateToString(tasks[id].workedTimeSpans[i].endTime, m.from.timeZone)
             > LocalDateOf(m, id)}

\* C37: a bucket of the answer of totalCompletedTimes:read carries the whole
\* of endTime - startTime of the closed workedTimeSpans of the tasks in the
\* range that were created on its local date; a workedTimeSpan that starts
\* or ends on a later local date than the creation of its task adds nothing
\* to the bucket of that later date
C37_CreationDateBucket ==
  \A m \in Answers : \A k \in DOMAIN Buckets(m) :
    /\ Buckets(m)[k].completedTime =
         SumOver([id \in DOMAIN tasks |-> Duration(id)],
                 {id \in InRange(m) : LocalDateOf(m, id) = Buckets(m)[k].localDate})
    /\ \A id \in InRange(m) : \A i \in LaterSpans(m, id) :
         (/\ Buckets(m)[k].localDate # LocalDateOf(m, id)
          /\ \A other \in InRange(m) : LocalDateOf(m, other) = LocalDateOf(m, id))
           => Buckets(m)[k].completedTime = 0

\* C37 happens: a task in the range has a workedTimeSpan of an hour that
\* lies on the local date after its creation; the bucket of the date of
\* creation carries the hour and the bucket of the next date carries 0
C37_Witness ==
  \E m \in Answers : \E id \in InRange(m) : \E i \in LaterSpans(m, id) :
    \E k, l \in DOMAIN Buckets(m) :
      /\ Buckets(m)[k].localDate = LocalDateOf(m, id)
      /\ Buckets(m)[k].completedTime = Hour
      /\ Buckets(m)[l].localDate =
           dateToString(tasks[id].workedTimeSpans[i].startTime, m.from.timeZone)
      /\ Buckets(m)[l].localDate = LocalDateOf(m, id) + 1
      /\ Buckets(m)[l].completedTime = 0

\* C38: the roomsStates collection is written by the updateOne of
\* roomState:update, when it updates and when its upsert inserts, and by the
\* deleteOne of deleteARoomState only: the arrival of an event and every
\* step of the listeners of the other events, those that write tasks and
\* those that read, leave it as it was
C38_RegistryFrame ==
  [][/\ \A call \in calls : (Stepped(call) /\ call.op # "roomState:update")
          => roomsStates' = roomsStates
     /\ roomsStates' # roomsStates =>
          \/ \E call \in calls : /\ Stepped(call)
                                 /\ call.op = "roomState:update"
                                 /\ call.pc \in {"updateOne", "insert"}
                                 /\ Returned(call)
          \/ \E u \in Users : /\ deletes'[u] = deletes[u] - 1
                              /\ Removed(u)]_vars

\* C38 happens: a workedTimeSpan:end has set the endTime of a workedTimeSpan
\* of task 1 while the room state of u1 holds task 1 as active, and the room
\* state is as it was
C38_Witness ==
  /\ "u1" \in DOMAIN roomsStates
  /\ roomsStates["u1"] = 1
  /\ wire # <<>>
  /\ wire[1].from.op = "workedTimeSpan:end"
  /\ wire[1].from.pc = "updateOne"
  /\ wire[1].from.id = 1
  /\ EndTimeOf(tasks, 1, 1) # NoTime

\* the tasks of a user, and the room state of a user
OwnTasks(u) == [id \in {t \in DOMAIN tasks : tasks[t].doer = u} |-> tasks[id]]
OwnRoomStates(u) == [r \in DOMAIN roomsStates \cap {u} |-> roomsStates[r]]

\* C39: what tasks:read, totalCompletedTimes:read, existingDates:read and
\* roomState:read answer on the socket of a user is what they answer when
\* the tasks and the room states of the other users are taken out of the
\* store, so that two stores with the same tasks and room state of the user
\* give the same answers; tasks:read gives the tasks of the user whose date
\* is from startDate to endDate, both included, and no other
C39_ReadIsolation ==
  \A k \in DOMAIN wire :
    LET m == wire[k]
        u == username(m.from.conn)
    IN CASE m.from.op = "tasks:read" ->
              /\ m.message[1].tasks =
                   Find(OwnTasks(u), u, m.from.startDate, m.from.endDate)
              /\ DOMAIN m.message[1].tasks =
                   {id \in DOMAIN tasks : /\ tasks[id].doer = u
                                          /\ m.from.startDate <= tasks[id].date
                                          /\ tasks[id].date <= m.from.endDate}
              /\ \A id \in DOMAIN m.message[1].tasks :
                   m.message[1].tasks[id] = tasks[id]
         [] m.from.op = "totalCompletedTimes:read" ->
              \E existing \in existingDatesCompletedTimes(OwnTasks(u), u,
                                m.from.startDate, m.from.endDate, m.from.timeZone) :
                m.message[1].allDatesCompletedTimes =
                  allDatesCompletedTimes(existing,
                    allDatesInitialCompletedTimes(m.from.numberOfDaysCompletedTimes,
                                                  m.from.startDate, m.from.timeZone))
         [] m.from.op = "existingDates:read" ->
              \E docs \in GroupFirst(OwnTasks(u), MatchDoer(OwnTasks(u), u),
                                     m.from.timeZone) :
                m.message = PushLocalDates(SortDescending(docs))
         [] m.from.op = "roomState:read" ->
              /\ u \in DOMAIN OwnRoomStates(u)
              /\ m.activeTaskId = OwnRoomStates(u)[u]
         [] OTHER -> TRUE

\* C39 happens: tasks:read on the socket of u1 has answered with the one
\* task of u1 while a task of u2 with a date in the same range is stored and
\* u2 has a room state
C39_Witness ==
  \E k \in DOMAIN wire :
    /\ wire[k].from.op = "tasks:read"
    /\ wire[k].from.conn = "A"
    /\ Cardinality(DOMAIN wire[k].message[1].tasks) = 1
    /\ \E id \in DOMAIN tasks :
         /\ tasks[id].doer = "u2"
         /\ wire[k].from.startDate <= tasks[id].date
         /\ tasks[id].date <= wire[k].from.endDate
    /\ "u2" \in DOMAIN roomsStates

\* C40: the listener of tasks:create sets the doer of the task it was sent to
\* the username of its socket and its date to the instant its clock shows,
\* whatever doer and date the client put into it, and insertOne stores the
\* task with that doer and that date
C40_DoerAndDateFromServer ==
  [][/\ \A c \in Conn, newTask \in NewTasks, now \in Times :
          TasksCreateReceive(c, newTask, now) =>
            \E call \in calls' \ calls :
              /\ call.newTask = newTask
              /\ call.doer = username(c)
              /\ call.startTime = now
     /\ \A call \in calls : (Stepped(call) /\ call.op = "tasks:create") =>
          /\ call.id \in DOMAIN tasks' \ DOMAIN tasks
          /\ tasks'[call.id].doer = username(call.conn)
          /\ tasks'[call.id].date = call.startTime
          /\ tasks'[call.id].name = call.newTask.name]_vars

\* C40 happens: socket A of u1 sent a task with doer u2 and date 2 when the
\* clock showed 1, and the task is stored with doer u1 and date 1
C40_Witness ==
  \E k \in DOMAIN wire :
    /\ wire[k].ev = "ack"
    /\ wire[k].from.op = "tasks:create"
    /\ wire[k].from.conn = "A"
    /\ wire[k].from.newTask.doer = "u2"
    /\ wire[k].from.newTask.date = 2
    /\ wire[k].from.id \in DOMAIN tasks
    /\ tasks[wire[k].from.id].doer = "u1"
    /\ tasks[wire[k].from.id].date = 1

====
